---- MODULE Spec2Model ----
(***************************************************************************)
(* A model of mkgendocs' Google docstring parser and of its source         *)
(* extractor (mkgendocs/parse.py).                                         *)
(*                                                                         *)
(* A Python string is a sequence of one-character strings, so that         *)
(* splitting, joining, slicing and the regular expressions of the parser   *)
(* are computed character by character as the code computes them.          *)
(***************************************************************************)
EXTENDS Integers, Sequences, FiniteSets, TLC

VARIABLES
    docstring,      \* self.docstring
    signature,      \* self.signature: None or [args, return_annotation]
    config,         \* self._config (the options the parser reads)
    state,          \* self._state: indent, sections, section, linenum
    data,           \* self.data
    pc,             \* where parse() is: idle, extract, parse, section, raised
    linenumber,     \* extract_sections: the loop index of enumerate(lines)
    new_section,    \* extract_sections: local flag
    new_block,      \* extract_sections: local flag
    i,              \* parse: index of the section parse_section is applied to next
    cur,            \* parse_section: header, text, args and signature being built
    j,              \* parse: index of the post-processing loop
    warned,         \* the warnings.warn calls of the current parse() call, in order
    err,            \* the exception the current parse() call raised, or None
    calls,          \* number of parse() calls started on this instance
    doc_lines,      \* extract_sections: its local lines, the lines of the docstring
    section_lines,  \* parse_section: its local lines, the lines of the section
    returned,       \* the values parse() returned, one per completed call
    source,         \* Extract: the body of ast.parse(self.source), a list of nodes
    last_call,      \* Extract: the last call made on the instance and its outcome
    fmt             \* Extract._format_signature: its argument and its locals

vars == <<docstring, signature, config, state, data, pc, linenumber,
          new_section, new_block, i, cur, j, warned, err, calls, returned,
          doc_lines, section_lines, source, last_call, fmt>>

(***************************************************************************)
(* Bounds of the model.                                                    *)
(***************************************************************************)
MaxLines == 3
MaxCalls == 2
MaxContinuation == 3

(***************************************************************************)
(* Python's None.  No string equals it: a string is a sequence of          *)
(* one-character strings.                                                  *)
(***************************************************************************)
None == <<"None">>

\* signature=None, where the signature is a dict otherwise
NoSignature == [none |-> TRUE]

\* no exception raised
NoError == [type |-> "None"]

(***************************************************************************)
(* Characters and strings.                                                 *)
(***************************************************************************)
NL == "\n"

\* \s of the re module, restricted to the characters of the model
IsSpaceChar(c) == c \in {" ", NL}

\* \w of the re module
WordChars ==
    {"a","b","c","d","e","f","g","h","i","j","k","l","m","n","o","p","q","r",
     "s","t","u","v","w","x","y","z",
     "A","B","C","D","E","F","G","H","I","J","K","L","M","N","O","P","Q","R",
     "S","T","U","V","W","X","Y","Z",
     "0","1","2","3","4","5","6","7","8","9","_"}

IsWordChar(c) == c \in WordChars

\* s[n:]
Drop(s, n) == IF n >= Len(s) THEN <<>> ELSE SubSeq(s, n + 1, Len(s))

\* s[:n]
Take(s, n) == IF n >= Len(s) THEN s ELSE SubSeq(s, 1, n)

\* s[a:b], 0-based, a <= b
Slice(s, a, b) == IF a >= b THEN <<>> ELSE SubSeq(s, a + 1, b)

\* s.startswith(p, k), k 0-based
StartsWithAt(s, k, p) ==
    /\ k + Len(p) <= Len(s)
    /\ \A n \in 1..Len(p) : s[k + n] = p[n]

\* the 0-based index of the first character at or after k that is not in the
\* class, or Len(s)
RECURSIVE SkipWhile(_, _, _)
SkipWhile(s, k, class) ==
    IF k < Len(s) /\ s[k + 1] \in class THEN SkipWhile(s, k + 1, class) ELSE k

SpaceChars == {" ", NL}

\* the length of the leading whitespace of s
LeadingSpace(s) == SkipWhile(s, 0, SpaceChars)

\* bool(s.strip())
NonBlank(s) == \E n \in 1..Len(s) : ~IsSpaceChar(s[n])

\* s.strip()
Strip(s) ==
    IF ~NonBlank(s) THEN <<>>
    ELSE LET a == CHOOSE n \in 1..Len(s) :
                    /\ ~IsSpaceChar(s[n])
                    /\ \A m \in 1..(n - 1) : IsSpaceChar(s[m])
             b == CHOOSE n \in 1..Len(s) :
                    /\ ~IsSpaceChar(s[n])
                    /\ \A m \in (n + 1)..Len(s) : IsSpaceChar(s[m])
         IN SubSeq(s, a, b)

\* s.find(p, k): the 0-based index of the first occurrence of p at or after k,
\* or -1
RECURSIVE Find(_, _, _)
Find(s, p, k) ==
    IF k + Len(p) > Len(s) THEN -1
    ELSE IF StartsWithAt(s, k, p) THEN k
    ELSE Find(s, p, k + 1)

\* s.split(sep), sep non-empty
RECURSIVE SplitOn(_, _)
SplitOn(s, sep) ==
    LET k == Find(s, sep, 0)
    IN IF k < 0 THEN <<s>>
       ELSE <<Take(s, k)>> \o SplitOn(Drop(s, k + Len(sep)), sep)

\* s.split('\n')
Split(s) == SplitOn(s, <<NL>>)

\* sep.join(parts)
RECURSIVE JoinWith(_, _)
JoinWith(parts, sep) ==
    IF Len(parts) = 0 THEN <<>>
    ELSE IF Len(parts) = 1 THEN parts[1]
    ELSE parts[1] \o sep \o JoinWith(Tail(parts), sep)

\* '\n'.join(parts)
Join(parts) == JoinWith(parts, <<NL>>)

\* x in list
InList(x, list) == \E n \in 1..Len(list) : list[n] = x

(***************************************************************************)
(* The configuration: DocString.__init__ and GoogleDocString.__init__.     *)
(***************************************************************************)
\* default_config['indent']
DefaultIndent == 4

\* default_config['delimiter']
Delimiter == <<":">>

\* default_config['arg_delimiter']
ArgDelimiter == <<":", " ">>

\* default_config['headers'].split('|'): 'Fields' + 'Notes' is one keyword
HeaderKeywords ==
    <<
       <<"A","r","g","s">>, <<"A","r","g","u","m","e","n","t","s">>,
       <<"R","e","t","u","r","n","s">>, <<"Y","i","e","l","d","s">>,
       <<"R","a","i","s","e","s">>, <<"N","o","t","e">>,
       <<"P","r","o","p","e","r","t","i","e","s">>,
       <<"F","i","e","l","d","s","N","o","t","e","s">>,
       <<"E","x","a","m","p","l","e">>, <<"E","x","a","m","p","l","e","s">>,
       <<"A","t","t","r","i","b","u","t","e","s">>, <<"T","o","d","o">>,
       <<"R","e","f","e","r","e","n","c","e","s">>
    >>

\* default_config['blocks'].split('|'): the last keyword ends with a space
BlockKeywords ==
    <<
       <<"n","o","t","e">>, <<"s","e","e","a","l","s","o">>,
       <<"a","b","s","t","r","a","c","t">>, <<"s","u","m","m","a","r","y">>,
       <<"t","l","d","r">>, <<"i","n","f","o">>, <<"t","o","d","o">>,
       <<"t","i","p">>, <<"h","i","n","t">>,
       <<"i","m","p","o","r","t","a","n","t">>,
       <<"s","u","c","c","e","s","s">>, <<"c","h","e","c","k">>,
       <<"d","o","n","e">>, <<"q","u","e","s","t","i","o","n">>,
       <<"h","e","l","p">>, <<"f","a","q">>, <<"w","a","r","n","i","n","g">>,
       <<"c","a","u","t","i","o","n">>,
       <<"a","t","t","e","n","t","i","o","n">>,
       <<"f","a","i","l","u","r","e">>, <<"f","a","i","l">>,
       <<"m","i","s","s","i","n","g">>, <<"d","a","n","g","e","r">>,
       <<"e","r","r","o","r">>, <<"b","u","g">>,
       <<"e","x","a","m","p","l","e">>, <<"s","n","i","p","p","e","t">>,
       <<"q","u","o","t","e">>, <<"c","i","t","e"," ">>
    >>

\* default_config['args'].split('|')
ArgsHeaders == << <<"A","r","g","s">>, <<"A","r","g","u","m","e","n","t","s">> >>

\* default_config['returns'].split('|'): 'Returns|' ends with an empty name
ReturnsHeaders == << <<"R","e","t","u","r","n","s">>, <<>> >>

\* the options of default_config that the parser's operations read
DefaultConfig ==
    [indent |-> DefaultIndent,
     check_args |-> TRUE,
     override_annotations |-> TRUE,
     warn_if_no_arg_doc |-> TRUE,
     exclude_warn_if_no_arg_doc |-> << <<"s","e","l","f">> >>,
     code |-> <<"p","y","t","h","o","n">>,
     ignore_args_for_undefined_headers |-> TRUE]

(***************************************************************************)
(* The line classifiers: the regular expressions of GoogleDocString.       *)
(***************************************************************************)
\* _get_indent: (^\s{indent,}), the length of the leading whitespace when it
\* is at least the minimum indent, else 0
GetIndent(line) ==
    LET n == LeadingSpace(line) IN IF n >= config.indent THEN n ELSE 0

\* _is_indent
IsIndent(line) == GetIndent(line) > 0

\* the keywords kw of list for which kw followed by suffix starts at k
MatchingKeywords(line, k, list, suffix) ==
    {n \in 1..Len(list) : StartsWithAt(line, k, list[n] \o suffix)}

\* _get_header: ^\s*(headers)delimiter\s*, the keyword captured or ''
GetHeader(line) ==
    LET m == MatchingKeywords(line, LeadingSpace(line), HeaderKeywords, Delimiter)
    IN IF m = {} THEN <<>>
       ELSE HeaderKeywords[CHOOSE n \in m : \A o \in m : n <= o]

\* _is_header
IsHeader(line) == GetHeader(line) # <<>>

\* _is_block: ^\s*(?:\!{3})|(?:\?{3}) (blocks) (?:\".*\")?\s* has a match in
\* the line; the alternation splits the whole pattern: either the line starts
\* with whitespace and !!!, or ??? , a space, a keyword and a space occur
\* anywhere in it
IsBlock(line) ==
    \/ StartsWithAt(line, LeadingSpace(line), <<"!","!","!">>)
    \/ \E k \in 0..Len(line) :
          /\ StartsWithAt(line, k, <<"?","?","?"," ">>)
          /\ MatchingKeywords(line, k + 4, BlockKeywords, <<" ">>) # {}

\* the 0-based index of the delimiter when \s*delimiter starts at k, else -1
DelimiterAfter(line, k) ==
    LET d == SkipWhile(line, k, SpaceChars)
    IN IF StartsWithAt(line, d, ArgDelimiter) THEN d ELSE -1

\* (\w*)\s*(\(.*\))?\s*delimiter(.*) matched at k: the groups of the match,
\* as a list of one element, or the empty list
ArgMatchAt(line, k) ==
    LET a == SkipWhile(line, k, WordChars)
        b == SkipWhile(line, a, SpaceChars)
        \* the closing parentheses after which the rest of the pattern matches
        closes == {p \in (b + 1)..(Len(line) - 1) :
                      line[p + 1] = ")" /\ DelimiterAfter(line, p + 1) >= 0}
        p == CHOOSE q \in closes : \A r \in closes : r <= q
    IN IF b < Len(line) /\ line[b + 1] = "(" /\ closes # {}
       THEN << [field |-> Slice(line, k, a),
                signature |-> Slice(line, b, p + 1),
                description |->
                    Drop(line, DelimiterAfter(line, p + 1) + Len(ArgDelimiter))] >>
       ELSE IF DelimiterAfter(line, b) >= 0
       THEN << [field |-> Slice(line, k, a),
                signature |-> <<>>,
                description |->
                    Drop(line, DelimiterAfter(line, b) + Len(ArgDelimiter))] >>
       ELSE <<>>

\* the leftmost match of the pattern that starts at k or after it
RECURSIVE FirstArgMatch(_, _)
FirstArgMatch(line, k) ==
    IF k > Len(line) THEN <<>>
    ELSE LET m == ArgMatchAt(line, k)
         IN IF m # <<>> THEN m ELSE FirstArgMatch(line, k + 1)

\* _get_arg: findall's list of matches, cut after its first element (the only
\* one the parser reads)
GetArg(line) == FirstArgMatch(line, 0)

\* get_signature: \w*\_?\w*\((?:[^,]+\s*[,]\s*)*[^,]*\) matched at the start
\* of the stripped line: the text matched, or None
GetSignature(line) ==
    LET s == Strip(line)
        a == SkipWhile(s, 0, WordChars)
        \* every comma before p follows a character that is not a comma
        closes == {p \in (a + 1)..(Len(s) - 1) :
                      /\ s[p + 1] = ")"
                      /\ \A c \in (a + 1)..(p - 1) :
                            s[c + 1] = "," => s[c] \notin {",", "("} }
    IN IF a < Len(s) /\ s[a + 1] = "(" /\ closes # {}
       THEN Take(s, (CHOOSE q \in closes : \A r \in closes : r <= q) + 1)
       ELSE None

\* _get_next_line, were it to return the line after line n, empty or not
NextLineUnskipped(lines, n) ==
    IF n + 1 >= Len(lines) THEN <<>> ELSE lines[n + 2]

\* _get_next_line: the next line that is not the empty string, '' past the end
RECURSIVE GetNextLine(_, _)
GetNextLine(lines, n) ==
    IF n + 1 >= Len(lines) THEN <<>>
    ELSE IF lines[n + 2] # <<>> THEN lines[n + 2]
    ELSE GetNextLine(lines, n + 1)

(***************************************************************************)
(* parse_section and _parse_arglist.                                       *)
(***************************************************************************)
\* the section parse_section is working on, and its lines
CurrentSection == state.sections[i + 1]
SectionLines == Split(CurrentSection)

\* _parse_arglist, were its loop to stop after the first continuation line
ContinuationOfOneLine(lines, n, description) ==
    IF IsIndent(GetNextLine(lines, n))
    THEN [description |-> Append(description, lines[n + 2]), linenum |-> n + 1]
    ELSE [description |-> description, linenum |-> n]

\* _parse_arglist, its while loop from line n (0-based) on: the description
\* lines collected and the line cursor
RECURSIVE Continuation(_, _, _)
Continuation(lines, n, description) ==
    IF IsIndent(GetNextLine(lines, n))
    THEN Continuation(lines, n + 1, Append(description, lines[n + 2]))
    ELSE [description |-> description, linenum |-> n]

\* _parse_arglist with the cursor at line n: the entry (a list of one
\* element, or the empty list for None) and the cursor it leaves
ParseArglist(lines, n) ==
    LET arg_data == GetArg(lines[n + 1])
        c == Continuation(lines, n, <<arg_data[1].description>>)
    IN IF arg_data = <<>>
       THEN [arg_data |-> <<>>, linenum |-> n]
       ELSE [arg_data |-> << [field |-> arg_data[1].field,
                              signature |-> arg_data[1].signature,
                              description |-> Join(c.description)] >>,
             linenum |-> c.linenum]

\* the test of parse_section, were every entry found appended to args
AcceptArgWithoutHeader(arg_data, header) == arg_data # <<>>

\* parse_section: whether the entry found is appended to args
AcceptArg(arg_data, header) ==
    \/ (arg_data # <<>> /\ header # <<>>)
    \/ (arg_data # <<>> /\ header = <<>>
          /\ ~config.ignore_args_for_undefined_headers)

\* parse_section: one iteration of its while loop on the record
\* [header, text, args, signature] being built, with the cursor at line n
SectionStep(lines, n, c) ==
    LET r == ParseArglist(lines, n)
        m == r.linenum
        sig == IF m = 0 THEN GetSignature(lines[1]) ELSE c.signature
    IN [cur |-> [header |-> c.header,
                 text |-> IF ~AcceptArg(r.arg_data, c.header) /\ (m > 0 \/ sig = None)
                          THEN Append(c.text, lines[m + 1])
                          ELSE c.text,
                 args |-> IF AcceptArg(r.arg_data, c.header)
                          THEN Append(c.args, r.arg_data[1])
                          ELSE c.args,
                 signature |-> sig],
        linenum |-> m + 1]

(***************************************************************************)
(* check_args, override_annotations and mark_code_blocks.                  *)
(***************************************************************************)
\* a dict given as the list of its [name, type] items: key in dict
HasKey(items, key) == \E n \in 1..Len(items) : items[n].name = key

\* dict[key]
ValueOf(items, key) == items[CHOOSE n \in 1..Len(items) : items[n].name = key].type

\* docstring_args: key in docstring_args
Documented(args, field) == \E n \in 1..Len(args) : args[n].field = field

\* docstring_args[field]: the last entry assigned under the field
DocumentedArg(args, field) ==
    args[CHOOSE n \in 1..Len(args) :
            /\ args[n].field = field
            /\ \A m \in (n + 1)..Len(args) : args[m].field # field]

\* check_args, the loop over the arguments of the signature from item n on:
\* the warnings emitted, and whether docstring_args[arg] raised KeyError
RECURSIVE CheckDeclared(_, _, _)
CheckDeclared(items, args, n) ==
    IF n > Len(items) THEN [warned |-> <<>>, raised |-> FALSE]
    ELSE LET arg == items[n].name
             rest == CheckDeclared(items, args, n + 1)
         IN IF items[n].type = <<>>
                  \/ InList(arg, config.exclude_warn_if_no_arg_doc)
            THEN rest
            ELSE IF ~Documented(args, arg) /\ config.warn_if_no_arg_doc
            THEN [warned |-> <<[kind |-> "Missing documentation", arg |-> arg]>>
                                \o rest.warned,
                  raised |-> rest.raised]
            ELSE IF ~Documented(args, arg)
            THEN [warned |-> <<>>, raised |-> TRUE]
            ELSE IF DocumentedArg(args, arg).signature
                        # <<"(">> \o items[n].type \o <<")">>
                    /\ DocumentedArg(args, arg).signature # <<>>
            THEN [warned |-> <<[kind |-> "Annotation mismatch", arg |-> arg]>>
                                \o rest.warned,
                  raised |-> rest.raised]
            ELSE rest

\* check_args, the loop over docstring_args (a dict: each field once, in the
\* order of first insertion) from entry n on
RECURSIVE CheckDocumented(_, _, _)
CheckDocumented(items, args, n) ==
    IF n > Len(args) THEN <<>>
    ELSE IF (\A m \in 1..(n - 1) : args[m].field # args[n].field)
              /\ ~HasKey(items, args[n].field)
         THEN <<[kind |-> "Found argument", arg |-> args[n].field]>>
                  \o CheckDocumented(items, args, n + 1)
         ELSE CheckDocumented(items, args, n + 1)

\* check_args, were it to check the sections of every header
CheckArgsOfEverySection(section) ==
    IF signature = NoSignature \/ ~config.check_args
    THEN [warned |-> <<>>, raised |-> FALSE]
    ELSE LET d == CheckDeclared(signature.args, section.args, 1)
         IN IF d.raised THEN d
            ELSE [warned |-> d.warned
                                \o CheckDocumented(signature.args, section.args, 1),
                  raised |-> FALSE]

\* check_args: the warnings emitted and whether it raised
CheckArgs(section) ==
    IF signature = NoSignature \/ ~config.check_args
         \/ ~InList(section.header, ArgsHeaders)
    THEN [warned |-> <<>>, raised |-> FALSE]
    ELSE LET d == CheckDeclared(signature.args, section.args, 1)
         IN IF d.raised THEN d
            ELSE [warned |-> d.warned
                                \o CheckDocumented(signature.args, section.args, 1),
                  raised |-> FALSE]

\* override_annotations, were it to leave alone the entries that the
\* docstring wrote a signature for
OverrideAnnotationsWhereUnwritten(section, parsed_args, headers) ==
    IF parsed_args = <<>> \/ ~config.override_annotations
         \/ ~InList(section.header, headers)
    THEN section
    ELSE [section EXCEPT !.args =
            [n \in 1..Len(section.args) |->
                IF HasKey(parsed_args, section.args[n].field)
                     /\ ValueOf(parsed_args, section.args[n].field) # <<>>
                     /\ section.args[n].signature = <<>>
                THEN [section.args[n] EXCEPT
                        !.signature = ValueOf(parsed_args, section.args[n].field)]
                ELSE section.args[n]]]

\* override_annotations
OverrideAnnotations(section, parsed_args, headers) ==
    IF parsed_args = <<>> \/ ~config.override_annotations
         \/ ~InList(section.header, headers)
    THEN section
    ELSE [section EXCEPT !.args =
            [n \in 1..Len(section.args) |->
                IF HasKey(parsed_args, section.args[n].field)
                     /\ ValueOf(parsed_args, section.args[n].field) # <<>>
                THEN [section.args[n] EXCEPT
                        !.signature = ValueOf(parsed_args, section.args[n].field)]
                ELSE section.args[n]]]

\* re.split('^\n', txt, flags=re.M): the 0-based index of the first newline
\* at or after k that stands at the start of a line, or -1
RECURSIVE FindBlankLine(_, _)
FindBlankLine(s, k) ==
    IF k >= Len(s) THEN -1
    ELSE IF s[k + 1] = NL /\ (k = 0 \/ s[k] = NL) THEN k
    ELSE FindBlankLine(s, k + 1)

\* re.split('^\n', txt, flags=re.M)
RECURSIVE SplitBlocks(_)
SplitBlocks(txt) ==
    LET k == FindBlankLine(txt, 0)
    IN IF k < 0 THEN <<txt>>
       ELSE <<Take(txt, k)>> \o SplitBlocks(Drop(txt, k + 1))

\* keyword='>>>' of mark_code_blocks
Keyword == <<">", ">", ">">>

\* the backquote character, which a TLA+ string cannot hold
Backquote == "BQ"

\* tag of mark_code_blocks: three backquotes
Tag == <<Backquote, Backquote, Backquote>>

\* the 0-based index where the whitespace that ends right before q starts
RECURSIVE SpaceStart(_, _)
SpaceStart(s, q) ==
    IF q > 0 /\ IsSpaceChar(s[q]) THEN SpaceStart(s, q - 1) ELSE q

\* mark_code_blocks, the body of its loop: lines = block.split(keyword), and
\* (\s*)(keyword[\w\W]+) is searched in keyword.join(lines[1:]), the text
\* after the first keyword of the block
MarkBlock(block, lang) ==
    LET first == Find(block, Keyword, 0)
        before_code == Take(block, first)
        rest == Drop(block, first + Len(Keyword))
        q == Find(rest, Keyword, 0)
        indent == Slice(rest, SpaceStart(rest, q), q)
        code == indent \o Drop(rest, q)
    IN IF first >= 0 /\ q >= 0 /\ q + Len(Keyword) < Len(rest)
       THEN before_code \o indent \o Tag \o lang \o <<NL>> \o code \o indent \o Tag
       ELSE block

\* the module function mark_code_blocks
MarkCodeBlocksText(txt, lang) ==
    LET blocks == SplitBlocks(txt)
    IN Join([n \in 1..Len(blocks) |-> MarkBlock(blocks[n], lang)])

\* DocString.mark_code_blocks
MarkCodeBlocks(section) ==
    IF config.code = None \/ config.code = <<>>
    THEN section
    ELSE [section EXCEPT !.text = MarkCodeBlocksText(section.text, config.code)]

(***************************************************************************)
(* extract_sections.                                                       *)
(***************************************************************************)
\* lines = self.docstring.split('\n')
Lines == Split(docstring)

\* _end_section
EndSection(st) ==
    IF NonBlank(Join(st.section))
    THEN [st EXCEPT !.sections = Append(@, Join(st.section))]
    ELSE st

\* _begin_section, were it to leave the indent of the closed section in place
BeginSectionKeepingIndent(st) == [st EXCEPT !.section = <<>>]

\* _begin_section
BeginSection(st) == [st EXCEPT !.section = <<>>, !.indent = 0]

\* _err_if_missing_indent: whether it raises
MissingIndent(lines, lineno) == ~IsIndent(GetNextLine(lines, lineno))

\* the test of the indentation, were it to leave out that the line is not
\* empty
DedentedOrEmpty(line, current_indent, indent) == current_indent < indent

\* extract_sections: whether the line closes the section by its indentation
Dedented(line, current_indent, indent) == line # <<>> /\ current_indent < indent

\* the locals of parse_section before it is called
NoSection == [header |-> <<>>, text |-> <<>>, args |-> <<>>, signature |-> None]

(***************************************************************************)
(* The parser instance.                                                    *)
(***************************************************************************)
\* an exception leaving parse(), were the sections extracted before it left
\* in self.data
RaiseWithSections(e) ==
    /\ pc' = "raised"
    /\ err' = e
    /\ data' = data \o state.sections

\* an exception leaves parse(): no statement of parse() runs after it, and
\* self.data stays as it was
Raise(e) ==
    /\ pc' = "raised"
    /\ err' = e
    /\ data' = data

\* parse() is called: self.data = [], and extract_sections starts by
\* splitting the docstring into its lines
ParseCall ==
    /\ pc \in {"idle", "raised"}
    /\ calls < MaxCalls
    /\ calls' = calls + 1
    /\ data' = <<>>
    /\ doc_lines' = Lines
    /\ linenumber' = 0
    /\ new_section' = TRUE
    /\ new_block' = FALSE
    /\ warned' = <<>>
    /\ err' = NoError
    /\ i' = 0
    /\ j' = 0
    /\ cur' = NoSection
    /\ pc' = "extract"
    /\ UNCHANGED <<source, last_call, fmt, docstring, signature, config, state, returned, section_lines>>

\* the body of the loop of extract_sections, were a block marker to set
\* new_section as a header does
ExtractLineCapturingInBlocks ==
    /\ pc = "extract"
    /\ linenumber < Len(doc_lines)
    /\ LET line == doc_lines[linenumber + 1]
           current_indent == GetIndent(line)
           captured == new_section /\ current_indent > 0
           indent == IF captured THEN current_indent ELSE state.indent
           st == [state EXCEPT !.indent = indent]
           header == IsHeader(line)
           block == ~header /\ IsBlock(line)
           opened == BeginSection(EndSection(st))
       IN IF (header \/ block) /\ MissingIndent(doc_lines, linenumber)
          THEN /\ Raise([type |-> "SyntaxError", lineno |-> linenumber,
                       text |-> line])
               /\ state' = st
               /\ UNCHANGED <<linenumber, new_section, new_block>>
          ELSE /\ state' =
                    IF header \/ block \/ Dedented(line, current_indent, indent)
                    THEN [opened EXCEPT
                            !.section = Append(@, Drop(line, opened.indent))]
                    ELSE [st EXCEPT !.section = Append(@, Drop(line, st.indent))]
               /\ new_section' =
                    IF header THEN TRUE
                    ELSE IF block THEN TRUE
                    ELSE IF captured THEN FALSE ELSE new_section
               /\ new_block' =
                    IF header THEN FALSE
                    ELSE IF block THEN TRUE
                    ELSE IF new_block /\ current_indent > 0 THEN FALSE
                    ELSE new_block
               /\ linenumber' = linenumber + 1
               /\ UNCHANGED <<pc, err, data>>
    /\ UNCHANGED <<source, last_call, fmt, docstring, signature, config, i, j, cur, warned, calls,
                   returned, doc_lines, section_lines>>

\* extract_sections, one iteration of its loop over the lines
ExtractLine ==
    /\ pc = "extract"
    /\ linenumber < Len(doc_lines)
    /\ LET line == doc_lines[linenumber + 1]
           current_indent == GetIndent(line)
           captured == new_section /\ current_indent > 0
           indent == IF captured THEN current_indent ELSE state.indent
           st == [state EXCEPT !.indent = indent]
           header == IsHeader(line)
           block == ~header /\ IsBlock(line)
           opened == BeginSection(EndSection(st))
       IN IF (header \/ block) /\ MissingIndent(doc_lines, linenumber)
          THEN /\ Raise([type |-> "SyntaxError", lineno |-> linenumber,
                       text |-> line])
               /\ state' = st
               /\ UNCHANGED <<linenumber, new_section, new_block>>
          ELSE /\ state' =
                    IF header \/ block \/ Dedented(line, current_indent, indent)
                    THEN [opened EXCEPT
                            !.section = Append(@, Drop(line, opened.indent))]
                    ELSE [st EXCEPT !.section = Append(@, Drop(line, st.indent))]
               /\ new_section' =
                    IF header THEN TRUE
                    ELSE IF block THEN FALSE
                    ELSE IF captured THEN FALSE ELSE new_section
               /\ new_block' =
                    IF header THEN FALSE
                    ELSE IF block THEN TRUE
                    ELSE IF new_block /\ current_indent > 0 THEN FALSE
                    ELSE new_block
               /\ linenumber' = linenumber + 1
               /\ UNCHANGED <<pc, err, data>>
    /\ UNCHANGED <<source, last_call, fmt, docstring, signature, config, i, j, cur, warned, calls,
                   returned, doc_lines, section_lines>>

\* extract_sections, after its loop: the open section is closed
ExtractEnd ==
    /\ pc = "extract"
    /\ linenumber = Len(doc_lines)
    /\ state' = BeginSection(EndSection(state))
    /\ pc' = "parse"
    /\ UNCHANGED <<source, last_call, fmt, docstring, signature, config, data, linenumber, new_section,
                   new_block, i, j, cur, warned, err, calls, returned,
                   doc_lines, section_lines>>

\* parse_section is called on the next section: the section is split into
\* its lines, and the header and the cursor are set
SectionBegin ==
    /\ pc = "parse"
    /\ i < Len(state.sections)
    /\ LET header == GetHeader(SectionLines[1])
       IN /\ cur' = [NoSection EXCEPT !.header = header]
          /\ state' = [state EXCEPT !.linenum = IF header # <<>> THEN 1 ELSE 0]
    /\ section_lines' = SectionLines
    /\ pc' = "section"
    /\ UNCHANGED <<source, last_call, fmt, docstring, signature, config, data, linenumber, new_section,
                   new_block, i, j, warned, err, calls, returned, doc_lines>>

\* parse_section, one iteration of its while loop
SectionLine ==
    /\ pc = "section"
    /\ state.linenum < Len(section_lines)
    /\ LET step == SectionStep(section_lines, state.linenum, cur)
       IN /\ cur' = step.cur
          /\ state' = [state EXCEPT !.linenum = step.linenum]
    /\ UNCHANGED <<source, last_call, fmt, docstring, signature, config, data, pc, linenumber, new_section,
                   new_block, i, j, warned, err, calls, returned, doc_lines,
                   section_lines>>

\* parse_section returns, and parse appends the record to self.data
SectionEnd ==
    /\ pc = "section"
    /\ state.linenum >= Len(section_lines)
    /\ data' = Append(data, [cur EXCEPT !.text = Join(cur.text)])
    /\ i' = i + 1
    /\ cur' = NoSection
    /\ pc' = "parse"
    /\ UNCHANGED <<source, last_call, fmt, docstring, signature, config, state, linenumber, new_section,
                   new_block, j, warned, err, calls, returned, doc_lines,
                   section_lines>>

\* the iteration of parse's second loop, were check_args called after the
\* two override_annotations calls
PostProcessCheckingOverridden ==
    /\ pc = "parse"
    /\ i = Len(state.sections)
    /\ j < Len(data)
    /\ LET overridden ==
               IF signature = NoSignature THEN data[j + 1]
               ELSE OverrideAnnotations(
                        OverrideAnnotations(data[j + 1], signature.args, ArgsHeaders),
                        <<[name |-> <<>>, type |-> signature.return_annotation]>>,
                        ReturnsHeaders)
           checked == CheckArgs(overridden)
       IN /\ warned' = warned \o checked.warned
          /\ IF checked.raised
             THEN /\ Raise([type |-> "KeyError"])
                  /\ UNCHANGED j
             ELSE /\ data' = [data EXCEPT ![j + 1] = MarkCodeBlocks(overridden)]
                  /\ j' = j + 1
                  /\ UNCHANGED <<pc, err>>
    /\ UNCHANGED <<source, last_call, fmt, docstring, signature, config, state, linenumber, new_section,
                   new_block, i, cur, calls, returned, doc_lines, section_lines>>

\* parse, one iteration of its second loop: check_args, override_annotations
\* for the arguments and for the return annotation, mark_code_blocks
PostProcess ==
    /\ pc = "parse"
    /\ i = Len(state.sections)
    /\ j < Len(data)
    /\ LET checked == CheckArgs(data[j + 1])
           overridden ==
               IF signature = NoSignature THEN data[j + 1]
               ELSE OverrideAnnotations(
                        OverrideAnnotations(data[j + 1], signature.args, ArgsHeaders),
                        <<[name |-> <<>>, type |-> signature.return_annotation]>>,
                        ReturnsHeaders)
       IN /\ warned' = warned \o checked.warned
          /\ IF checked.raised
             THEN /\ Raise([type |-> "KeyError"])
                  /\ UNCHANGED j
             ELSE /\ data' = [data EXCEPT ![j + 1] = MarkCodeBlocks(overridden)]
                  /\ j' = j + 1
                  /\ UNCHANGED <<pc, err>>
    /\ UNCHANGED <<source, last_call, fmt, docstring, signature, config, state, linenumber, new_section,
                   new_block, i, cur, calls, returned, doc_lines, section_lines>>

\* parse returns self.data
Return ==
    /\ pc = "parse"
    /\ i = Len(state.sections)
    /\ j = Len(data)
    /\ returned' = Append(returned, data)
    /\ pc' = "idle"
    /\ UNCHANGED <<source, last_call, fmt, docstring, signature, config, state, data, linenumber,
                   new_section, new_block, i, j, cur, warned, err, calls,
                   doc_lines, section_lines>>

(***************************************************************************)
(* The docstrings, signatures and configurations the parser is built on.   *)
(***************************************************************************)
Indent4 == <<" ", " ", " ", " ">>

LineEmpty == <<>>
LineSpaces2 == <<" ", " ">>
LineSpaces4 == Indent4
LineText == <<"t">>
LineIndentedText == Indent4 \o <<"t">>
LineDeepText == Indent4 \o Indent4 \o <<"c">>
LineArg == <<"a", ":", " ", "b">>
LineIndentedArg == Indent4 \o LineArg
LineHeader == <<"A", "r", "g", "s", ":">>
LineBlock == <<"!", "!", "!", " ", "n", "o", "t", "e">>

LinePool ==
    {LineEmpty, LineSpaces2, LineSpaces4, LineText, LineIndentedText,
     LineDeepText, LineArg, LineIndentedArg, LineHeader, LineBlock}

\* the docstrings of at most n lines of the pool
DocsUpTo(n) == {Join(ls) : ls \in UNION {[1..m -> LinePool] : m \in 0..n}}

PoolDocs == DocsUpTo(MaxLines)

\* the lines that follow an entry of an argument list
ContinuationPool == {LineEmpty, LineDeepText, LineIndentedText}

\* a header, an entry, and at most MaxContinuation lines after it
EntryDocs ==
    {Join(<<LineHeader, LineIndentedArg>> \o tail) :
        tail \in UNION {[1..m -> ContinuationPool] : m \in 0..MaxContinuation}}

\* lines documenting an argument or a returned value
LineX == Indent4 \o <<"x", " ", "(", "i", "n", "t", ")", ":", " ">>
            \o <<"t", "h", "e", " ", "x", " ", "v", "a", "l", "u", "e">>
LineXStr == Indent4 \o <<"x", " ", "(", "s", "t", "r", ")", ":", " ", "d">>
LineXPlain == Indent4 \o <<"x", ":", " ", "d">>
LineY == Indent4 \o <<"y", ":", " ", "d">>
LineReturns == <<"R", "e", "t", "u", "r", "n", "s", ":">>
LineReturned == Indent4 \o <<"i", "n", "t", ":", " ", "a", " ", "r", "e", "s", "u", "l", "t">>
LineRaises == <<"R", "a", "i", "s", "e", "s", ":">>

\* "Args:\n    x (int): the x value\nReturns:\n    int: a result\n"
DocArgsReturns ==
    Join(<<LineHeader, LineX, LineReturns, LineReturned, LineEmpty>>)

\* docstrings with sections of arguments
SigDocs ==
    {DocArgsReturns,
     Join(<<LineHeader, LineX>>),
     Join(<<LineHeader, LineXStr>>),
     Join(<<LineHeader, LineXPlain>>),
     Join(<<LineHeader, LineY>>),
     Join(<<LineHeader, LineY, LineHeader, LineY>>),
     Join(<<LineHeader, LineY, LineReturns, LineReturned>>),
     Join(<<LineHeader, LineXStr, LineY, LineXPlain>>),
     Join(<<LineReturns, LineReturned>>),
     Join(<<LineRaises, LineXStr>>),
     Join(<<LineText>>)}

TypeInt == <<"i", "n", "t">>
TypeStr == <<"s", "t", "r">>
NameX == <<"x">>
NameZ == <<"z">>
NameSelf == <<"s", "e", "l", "f">>

\* the signature dicts: args as the list of its items
Signatures ==
    {[args |-> a, return_annotation |-> r] :
        a \in { <<>>,
                <<[name |-> NameX, type |-> TypeInt]>>,
                <<[name |-> NameX, type |-> <<>>]>>,
                <<[name |-> NameSelf, type |-> <<>>],
                  [name |-> NameX, type |-> TypeInt]>>,
                <<[name |-> NameSelf, type |-> TypeStr],
                  [name |-> NameX, type |-> TypeInt],
                  [name |-> NameZ, type |-> TypeStr]>> },
        r \in {<<>>, TypeInt}}

\* configurations for the checks against a signature
SigConfigs ==
    {[DefaultConfig EXCEPT !.check_args = c, !.warn_if_no_arg_doc = w,
                           !.override_annotations = o,
                           !.exclude_warn_if_no_arg_doc = e] :
        c \in BOOLEAN, w \in BOOLEAN, o \in BOOLEAN,
        e \in {<<NameSelf>>, <<NameX>>}}

\* configurations that change how a section is parsed and marked
OptionConfigs ==
    {[DefaultConfig EXCEPT !.ignore_args_for_undefined_headers = g, !.code = c] :
        g \in BOOLEAN, c \in {DefaultConfig.code, <<>>, None}}
        \ {DefaultConfig}

\* lines of interactive examples
LineExample == <<">", ">", ">", " ", "a">>
LineIndentedExample == Indent4 \o <<">", ">", ">", " ", "b">>

ExamplePool ==
    {LineExample, LineIndentedExample, LineDeepText, LineText, LineEmpty}

\* the docstrings of 1 to MaxLines lines of examples and text
ExampleDocs ==
    {Join(ls) : ls \in UNION {[1..m -> ExamplePool] : m \in 1..MaxLines}}

\* the settings of the option code
CodeConfigs ==
    {[DefaultConfig EXCEPT !.code = c] : c \in {DefaultConfig.code, <<>>, None}}

(***************************************************************************)
(* The Extract class.  The source file is the body of its ast: a list of   *)
(* nodes, each a record with the class of the node (type), its name, its   *)
(* decorators, its parameters as astor writes them, its own body and the   *)
(* value of ast.get_docstring.                                             *)
(***************************************************************************)
AstNode(type, name, decorator_list, args, body, doc) ==
    [type |-> type, name |-> name, decorator_list |-> decorator_list,
     args |-> args, body |-> body, docstring |-> doc]

\* a decorator: a plain name (ast.Name) or a call, an attribute (other classes)
Decorator(type, id) == [type |-> type, id |-> id]

\* _format_signature is not running
NoFormat == [pc |-> "idle"]

\* no call made on the Extract instance yet
NoCall == [call |-> "none"]

\* a call that returned value
Returned(call, args, value) ==
    [call |-> call, args |-> args, raised |-> "None", value |-> value]

\* a call that raised an exception of class type
Raised(call, args, type) ==
    [call |-> call, args |-> args, raised |-> type, value |-> [none |-> TRUE]]

\* the 1-based indices of the nodes of body of class type named name
NodesNamed(body, type, name) ==
    {n \in 1..Len(body) : body[n].type = type /\ body[n].name = name}

\* the first node of body of class type named name, in a list; the empty list
\* when there is none
FirstNamed(body, type, name) ==
    LET found == NodesNamed(body, type, name)
    IN IF found = {} THEN <<>>
       ELSE <<body[CHOOSE n \in found : \A m \in found : n <= m]>>

\* Extract._get_function: the loop over body with isinstance(method_def,
\* ast.FunctionDef); the empty list stands for raise Exception
FindFunction(body, function_name) == FirstNamed(body, "FunctionDef", function_name)

\* Extract._get_class: the empty list stands for raise AttributeError
FindClass(body, class_name) == FirstNamed(body, "ClassDef", class_name)

\* astor.to_source(function_def.args): the parameters separated by ", " and
\* the newline that ends the generated source
ToSource(args) == JoinWith(args, <<",", " ">>) \o <<NL>>

NameOfSelf == <<"s", "e", "l", "f">>

\* re.sub(r'(?:self\,?)|\s', '', s) from the 0-based index k on
RECURSIVE RemoveSelfAndSpace(_, _)
RemoveSelfAndSpace(s, k) ==
    IF k >= Len(s) THEN <<>>
    ELSE IF StartsWithAt(s, k, NameOfSelf)
         THEN IF StartsWithAt(s, k + Len(NameOfSelf), <<",">>)
              THEN RemoveSelfAndSpace(s, k + Len(NameOfSelf) + 1)
              ELSE RemoveSelfAndSpace(s, k + Len(NameOfSelf))
    ELSE IF IsSpaceChar(s[k + 1]) THEN RemoveSelfAndSpace(s, k + 1)
    ELSE <<s[k + 1]>> \o RemoveSelfAndSpace(s, k + 1)

\* Extract._get_signature
ExtractSignature(function_def) == RemoveSelfAndSpace(ToSource(function_def.args), 0)

\* s.replace(c, r) for a one-character c, computed on the two halves of s
RECURSIVE ReplaceChar(_, _, _)
ReplaceChar(s, c, r) ==
    IF s = <<>> THEN <<>>
    ELSE IF Len(s) = 1 THEN (IF s[1] = c THEN r ELSE s)
    ELSE ReplaceChar(SubSeq(s, 1, Len(s) \div 2), c, r)
         \o ReplaceChar(SubSeq(s, Len(s) \div 2 + 1, Len(s)), c, r)

\* _format_signature: tab
Tab == <<" ", " ", " ">>

\* _format_signature: the length a line and the next parameter may reach
LineLimit == 77

\* _format_signature: the while loop, from the parameters left, the lines
\* written and the line being filled, to the lines and the line at its end
RECURSIVE FormatLoop(_, _, _)
FormatLoop(params, lines, current_line) ==
    IF params = <<>> THEN [lines |-> lines, current_line |-> current_line]
    ELSE IF Len(current_line) + Len(params[1]) > LineLimit
         THEN FormatLoop(params, Append(lines, current_line \o <<",">>), Tab)
    ELSE IF Len(current_line) > Len(Tab)
         THEN FormatLoop(Tail(params), lines,
                         current_line \o <<",", " ">> \o params[1])
    ELSE FormatLoop(Tail(params), lines, current_line \o params[1])

\* Extract._format_signature
FormatSignature(signature_str) ==
    LET params == SplitOn(signature_str, <<",">>)
        end == FormatLoop(Tail(params), <<>>, Tab \o Head(params))
    IN IF Len(end.current_line) > Len(Tab)
       THEN ReplaceChar(ReplaceChar(Join(Append(end.lines, end.current_line)),
                                    ":", <<":", " ">>),
                        "=", <<" ", "=", " ">>)
       ELSE <<>>

\* f"{name}(\n{Extract._format_signature(signature)}\n)" or f"{name}()"
SignatureOf(name, function_def) ==
    LET sig == ExtractSignature(function_def)
    IN IF sig # <<>>
       THEN name \o <<"(", NL>> \o FormatSignature(sig) \o <<NL, ")">>
       ELSE name \o <<"(", ")">>

\* docstring = ast.get_docstring(node); if docstring is None: docstring = ""
DocstringOrEmpty(node) == IF node.docstring = None THEN <<>> ELSE node.docstring

NameInit == <<"_", "_", "i", "n", "i", "t", "_", "_">>

\* Extract.get_class
GetClassOutcome(class_name) ==
    LET found == FindClass(source, class_name)
        class_def == found[1]
        init == FindFunction(class_def.body, NameInit)
    IN IF found = <<>> THEN Raised("get_class", <<class_name>>, "AttributeError")
       ELSE IF init = <<>> THEN Raised("get_class", <<class_name>>, "Exception")
       ELSE Returned("get_class", <<class_name>>,
                     [class |-> class_def.name,
                      docstring |-> DocstringOrEmpty(class_def),
                      signature |-> SignatureOf(class_name, init[1]),
                      function |-> <<>>,
                      ast |-> class_def])

\* Extract.get_function
GetFunctionOutcome(function_name) ==
    LET found == FindFunction(source, function_name)
        fn == found[1]
    IN IF found = <<>> THEN Raised("get_function", <<function_name>>, "Exception")
       ELSE Returned("get_function", <<function_name>>,
                     [class |-> <<>>,
                      docstring |-> fn.docstring,
                      signature |-> SignatureOf(function_name, fn),
                      function |-> fn.name,
                      ast |-> fn])

\* Extract.get_method
GetMethodOutcome(class_name, method_name) ==
    LET found == FindClass(source, class_name)
        cls == found[1]
        method == FindFunction(cls.body, method_name)
    IN IF found = <<>>
       THEN Raised("get_method", <<class_name, method_name>>, "AttributeError")
       ELSE IF method = <<>>
       THEN Raised("get_method", <<class_name, method_name>>, "Exception")
       ELSE Returned("get_method", <<class_name, method_name>>,
                     [class |-> cls.name,
                      docstring |-> DocstringOrEmpty(method[1]),
                      signature |-> SignatureOf(method_name, method[1]),
                      function |-> method[1].name,
                      ast |-> method[1]])

NameStaticmethod == <<"s", "t", "a", "t", "i", "c", "m", "e", "t", "h", "o", "d">>

\* get_methods: the names one decorator list appends for a method
RECURSIVE DecoratedNames(_, _, _)
DecoratedNames(decorator_list, name, static) ==
    IF decorator_list = <<>> THEN <<>>
    ELSE (IF /\ Head(decorator_list).type = "Name"
             /\ static
             /\ Head(decorator_list).id = NameStaticmethod
          THEN <<name>> ELSE <<>>)
         \o DecoratedNames(Tail(decorator_list), name, static)

\* get_methods: the names the body of its loop appends for one node
NamesOfMethod(function, static) ==
    IF function.type # "FunctionDef" THEN <<>>
    ELSE IF /\ function.decorator_list = <<>>
            /\ function.name # NameInit
            /\ ~StartsWithAt(function.name, 0, <<"_">>)
         THEN <<function.name>>
    ELSE DecoratedNames(function.decorator_list, function.name, static)

\* get_methods: the loop over cls.body
RECURSIVE MethodNames(_, _)
MethodNames(body, static) ==
    IF body = <<>> THEN <<>>
    ELSE NamesOfMethod(Head(body), static) \o MethodNames(Tail(body), static)

\* Extract.get_methods
GetMethodsOutcome(class_name, static) ==
    LET found == FindClass(source, class_name)
    IN IF found = <<>>
       THEN Raised("get_methods", <<class_name>>, "AttributeError")
       ELSE Returned("get_methods", <<class_name>>,
                     [static |-> static,
                      methods |-> MethodNames(found[1].body, static)])

\* [node.name for node in module.body if isinstance(node, type)]
RECURSIVE NamesOfType(_, _)
NamesOfType(body, type) ==
    IF body = <<>> THEN <<>>
    ELSE (IF Head(body).type = type THEN <<Head(body).name>> ELSE <<>>)
         \o NamesOfType(Tail(body), type)

\* lines with the marks of a block
LineBangOther == <<"!", "!", "!", " ", "f", "o", "o">>
LineQuestionNote == <<"?", "?", "?", " ", "n", "o", "t", "e">>
LineQuestionInside == <<"t", " ", "?", "?", "?", " ", "n", "o", "t", "e", " ", "x">>

BlockPool ==
    {LineBangOther, LineQuestionNote, LineQuestionInside, LineBlock,
     LineIndentedText, LineText}

\* the docstrings of 1 to MaxLines lines with the marks of a block
BlockDocs ==
    {Join(ls) : ls \in UNION {[1..m -> BlockPool] : m \in 1..MaxLines}}

\* the keywords of a header that the documentation of the parser names
NamedHeaders ==
    {<<"A","r","g","s">>, <<"A","r","g","u","m","e","n","t","s">>,
     <<"R","e","t","u","r","n","s">>, <<"Y","i","e","l","d","s">>,
     <<"R","a","i","s","e","s">>, <<"N","o","t","e">>, <<"N","o","t","e","s">>,
     <<"P","r","o","p","e","r","t","i","e","s">>, <<"F","i","e","l","d","s">>,
     <<"E","x","a","m","p","l","e">>, <<"E","x","a","m","p","l","e","s">>,
     <<"A","t","t","r","i","b","u","t","e","s">>, <<"T","o","d","o">>,
     <<"R","e","f","e","r","e","n","c","e","s">>}

\* a line made of a keyword and the delimiter, alone or after a line of text,
\* and an indented line after it
HeaderDocs ==
    {Join(pre \o <<kw \o Delimiter, LineIndentedText>>) :
        pre \in {<<>>, <<LineText>>}, kw \in NamedHeaders \cup {HeaderKeywords[8]}}

\* DocString.__init__
Init ==
    /\ \/ /\ docstring \in PoolDocs \cup EntryDocs
          /\ signature = NoSignature
          /\ config = DefaultConfig
       \/ /\ docstring \in SigDocs
          /\ signature \in Signatures \cup {NoSignature}
          /\ config \in SigConfigs
       \/ /\ docstring \in DocsUpTo(MaxLines - 1)
          /\ signature = NoSignature
          /\ config \in OptionConfigs
       \/ /\ docstring \in ExampleDocs
          /\ signature = NoSignature
          /\ config \in CodeConfigs
       \/ /\ docstring \in BlockDocs \cup HeaderDocs
          /\ signature = NoSignature
          /\ config = DefaultConfig
    /\ state = [indent |-> 0, lineno |-> 0, sections |-> <<>>, section |-> <<>>,
                linenum |-> 0]
    /\ data = <<>>
    /\ pc = "idle"
    /\ linenumber = 0
    /\ new_section = FALSE
    /\ new_block = FALSE
    /\ i = 0
    /\ j = 0
    /\ cur = NoSection
    /\ warned = <<>>
    /\ err = NoError
    /\ calls = 0
    /\ returned = <<>>
    /\ doc_lines = <<>>
    /\ section_lines = <<>>
    /\ source = <<>>
    /\ last_call = NoCall
    /\ fmt = NoFormat

Next ==
    \/ ParseCall
    \/ ExtractLine
    \/ ExtractEnd
    \/ SectionBegin
    \/ SectionLine
    \/ SectionEnd
    \/ PostProcess
    \/ Return

Spec == Init /\ [][Next]_vars

(***************************************************************************)
(* The source files given to Extract and the calls made on it.             *)
(***************************************************************************)
MaxMethods == 2

NameTest == <<"T", "e", "s", "t">>
NameOther == <<"O", "t", "h", "e", "r">>
NameAFunc == <<"a", "_", "f", "u", "n", "c">>
NameImplement == <<"i", "m", "p", "l", "e", "m", "e", "n", "t">>
NameAbstract == <<"a", "b", "s", "t", "r", "a", "c", "t">>
NameMake == <<"m", "a", "k", "e">>
NameHidden == <<"_", "h", "i", "d", "d", "e", "n">>
NameFetch == <<"f", "e", "t", "c", "h">>
NameAbstractmethod ==
    <<"a", "b", "s", "t", "r", "a", "c", "t", "m", "e", "t", "h", "o", "d">>
DocText == <<"d", "o", "c">>
ParamA == <<"a">>
ParamBInt == <<"b", ":", " ", "i", "n", "t">>
ParamCDefault == <<"c", "=", "1">>

\* a = 3
NodeAssign == AstNode("Assign", <<>>, <<>>, <<>>, <<>>, None)

\* the statements of a class body
MethodPool ==
    {AstNode("FunctionDef", NameInit, <<>>, <<NameOfSelf>>, <<>>, None),
     AstNode("FunctionDef", NameInit, <<>>, <<NameOfSelf, ParamA>>, <<>>, None),
     AstNode("FunctionDef", NameImplement, <<>>, <<NameOfSelf>>, <<>>, DocText),
     AstNode("FunctionDef", NameAbstract,
             <<Decorator("Name", NameAbstractmethod)>>, <<NameOfSelf>>, <<>>, None),
     AstNode("FunctionDef", NameMake,
             <<Decorator("Name", NameStaticmethod)>>, <<ParamA, ParamBInt>>, <<>>, None),
     AstNode("FunctionDef", NameHidden, <<>>, <<NameOfSelf>>, <<>>, None),
     AstNode("AsyncFunctionDef", NameFetch, <<>>, <<NameOfSelf>>, <<>>, None),
     NodeAssign}

\* the class bodies of up to MaxMethods statements
ClassBodies == UNION {[1..m -> MethodPool] : m \in 0..MaxMethods}

\* the definitions at the top level of a source file
ModulePool ==
    {AstNode("ClassDef", NameTest, <<>>, <<>>, body, doc) :
        body \in ClassBodies, doc \in {None}}
    \cup {AstNode("ClassDef", NameTest, <<>>, <<>>, <<>>, DocText),
          AstNode("FunctionDef", NameAFunc, <<>>, <<>>, <<>>, DocText),
          AstNode("FunctionDef", NameAFunc, <<>>, <<ParamA, ParamBInt, ParamCDefault>>,
                  <<>>, None),
          AstNode("AsyncFunctionDef", NameAFunc, <<>>, <<>>, <<>>, DocText)}

\* the source files: a definition, alone or after an assignment
Sources == {pre \o <<node>> : pre \in {<<>>, <<NodeAssign>>}, node \in ModulePool}

ClassNames == {NameTest, NameOther}
FunctionNames == {NameAFunc, NameOther}
MethodNamesAsked == {NameInit, NameImplement, NameAbstract, NameFetch}

\* an instance of the parser that parses nothing
ParserUnused ==
    /\ docstring = <<>>
    /\ signature = NoSignature
    /\ config = DefaultConfig
    /\ state = [indent |-> 0, lineno |-> 0, sections |-> <<>>, section |-> <<>>,
                linenum |-> 0]
    /\ data = <<>>
    /\ pc = "idle"
    /\ linenumber = 0
    /\ new_section = FALSE
    /\ new_block = FALSE
    /\ i = 0
    /\ j = 0
    /\ cur = NoSection
    /\ warned = <<>>
    /\ err = NoError
    /\ calls = 0
    /\ returned = <<>>
    /\ doc_lines = <<>>
    /\ section_lines = <<>>

parser_vars == <<docstring, signature, config, state, data, pc, linenumber,
                 new_section, new_block, i, cur, j, warned, err, calls, returned,
                 doc_lines, section_lines>>

\* Extract.__init__
ExtractInit ==
    /\ source \in Sources
    /\ last_call = NoCall
    /\ fmt = NoFormat
    /\ ParserUnused

\* extract.get_class(class_name)
GetClass ==
    /\ \E class_name \in ClassNames : last_call' = GetClassOutcome(class_name)
    /\ UNCHANGED <<source, fmt, parser_vars>>

\* extract.get_function(function_name)
GetFunction ==
    /\ \E function_name \in FunctionNames : last_call' = GetFunctionOutcome(function_name)
    /\ UNCHANGED <<source, fmt, parser_vars>>

\* extract.get_method(class_name, method_name)
GetMethod ==
    /\ \E class_name \in ClassNames, method_name \in MethodNamesAsked :
          last_call' = GetMethodOutcome(class_name, method_name)
    /\ UNCHANGED <<source, fmt, parser_vars>>

\* extract.get_methods(class_name, static)
GetMethods ==
    /\ \E class_name \in ClassNames, static \in BOOLEAN :
          last_call' = GetMethodsOutcome(class_name, static)
    /\ UNCHANGED <<source, fmt, parser_vars>>

\* extract.get_classes()
GetClasses ==
    /\ last_call' = Returned("get_classes", <<>>,
                          [names |-> NamesOfType(source, "ClassDef")])
    /\ UNCHANGED <<source, fmt, parser_vars>>

\* extract.get_functions()
GetFunctions ==
    /\ last_call' = Returned("get_functions", <<>>,
                          [names |-> NamesOfType(source, "FunctionDef")])
    /\ UNCHANGED <<source, fmt, parser_vars>>

ExtractNext ==
    \/ GetClass
    \/ GetFunction
    \/ GetMethod
    \/ GetMethods
    \/ GetClasses
    \/ GetFunctions

ExtractSpec == ExtractInit /\ [][ExtractNext]_vars

(***************************************************************************)
(* Extract._format_signature, one iteration of its loop at a time.         *)
(***************************************************************************)
MaxParams == 4
MaxFormatLines == 4
WideLength == 20
OverlongLength == 75

\* the character c, n times
Repeat(c, n) == [k \in 1..n |-> c]

\* parameters as _get_signature leaves them, without whitespace
ParamB == <<"b", ":", "i", "n", "t">>
ParamWide == Repeat("w", WideLength) \o <<":", "i", "n", "t">>
ParamOverlong == Repeat("v", OverlongLength)

FormatParamPool == {ParamA, ParamB, ParamCDefault, ParamWide}

\* the lists of 1 to MaxParams parameters of the pool
ShortParamLists == UNION {[1..m -> FormatParamPool] : m \in 1..MaxParams}

\* the same lists, and those with the overlong parameter at one place
ParamLists ==
    ShortParamLists \cup
    {IF k <= Len(ps) THEN [ps EXCEPT ![k] = ParamOverlong] ELSE ps :
        ps \in ShortParamLists, k \in 1..MaxParams}

\* the parameter strings: the empty string, and the parameters of a list
\* separated by commas
FormatInputs == {<<>>} \cup {JoinWith(ps, <<",">>) : ps \in ParamLists}

\* the text _format_signature returns from the lines written and the line
\* being filled
FormatResult(lines, current_line) ==
    IF Len(current_line) > Len(Tab)
    THEN ReplaceChar(ReplaceChar(Join(Append(lines, current_line)),
                                 ":", <<":", " ">>),
                     "=", <<" ", "=", " ">>)
    ELSE <<>>

\* a caller is about to call Extract._format_signature(signature_str)
FormatInit ==
    /\ fmt \in {[pc |-> "idle", signature_str |-> s] : s \in FormatInputs}
    /\ last_call = NoCall
    /\ source = <<>>
    /\ ParserUnused

\* _format_signature up to its loop: split, pop(0), the first line
FormatCall ==
    /\ fmt.pc = "idle"
    /\ LET params == SplitOn(fmt.signature_str, <<",">>)
       IN fmt' = [pc |-> "loop",
                  signature_str |-> fmt.signature_str,
                  params |-> Tail(params),
                  lines |-> <<>>,
                  current_line |-> Tab \o Head(params)]
    /\ UNCHANGED <<source, last_call, parser_vars>>

\* one iteration of the while loop; the model stops following a call that
\* has written MaxFormatLines lines
FormatIteration ==
    /\ fmt.pc = "loop"
    /\ fmt.params # <<>>
    /\ Len(fmt.lines) < MaxFormatLines
    /\ fmt' =
         IF Len(fmt.current_line) + Len(fmt.params[1]) > LineLimit
         THEN [fmt EXCEPT !.lines = Append(@, fmt.current_line \o <<",">>),
                          !.current_line = Tab]
         ELSE IF Len(fmt.current_line) > Len(Tab)
         THEN [fmt EXCEPT !.current_line = @ \o <<",", " ">> \o fmt.params[1],
                          !.params = Tail(@)]
         ELSE [fmt EXCEPT !.current_line = @ \o fmt.params[1],
                          !.params = Tail(@)]
    /\ UNCHANGED <<source, last_call, parser_vars>>

\* the loop has ended: _format_signature returns
FormatReturn ==
    /\ fmt.pc = "loop"
    /\ fmt.params = <<>>
    /\ last_call' = Returned("_format_signature", <<fmt.signature_str>>,
                             [text |-> FormatResult(fmt.lines, fmt.current_line)])
    /\ fmt' = [pc |-> "done", signature_str |-> fmt.signature_str]
    /\ UNCHANGED <<source, parser_vars>>

FormatNext ==
    \/ FormatCall
    \/ FormatIteration
    \/ FormatReturn

FormatSpec == FormatInit /\ [][FormatNext]_vars

(***************************************************************************)
(* generate: the class entries of a page that is not an index.  The        *)
(* template renders what to_markdown is given; the entry's outcome is the   *)
(* list of the methods handed to it, in the order of the page.             *)
(***************************************************************************)
MaxAfterInit == 2
MaxListed == 2

NameRun == <<"r", "u", "n">>
NameMissing == <<"m", "i", "s", "s", "i", "n", "g">>
Bang == <<"!">>

\* def __init__(self)
NodeInit == AstNode("FunctionDef", NameInit, <<>>, <<NameOfSelf>>, <<>>, None)

\* the statements of the classes of a page after __init__
PageMethodPool ==
    {AstNode("FunctionDef", NameImplement, <<>>, <<NameOfSelf>>, <<>>, DocText),
     AstNode("FunctionDef", NameRun, <<>>, <<NameOfSelf>>, <<>>, None),
     AstNode("FunctionDef", NameMake,
             <<Decorator("Name", NameStaticmethod)>>, <<ParamA>>, <<>>, None),
     AstNode("FunctionDef", NameHidden, <<>>, <<NameOfSelf>>, <<>>, None)}

\* the bodies of the classes of a page: __init__ and up to MaxAfterInit
\* statements, or one statement and no __init__
PageBodies ==
    {<<NodeInit>> \o rest :
        rest \in UNION {[1..m -> PageMethodPool] : m \in 0..MaxAfterInit}}
    \cup {<<node>> : node \in PageMethodPool}

\* page_data['source']: a file with the class Test
PageSources ==
    {<<AstNode("ClassDef", NameTest, <<>>, <<>>, body, None)>> : body \in PageBodies}

\* the strings of the method list of a class entry
ListedPool ==
    {NameImplement, NameRun, NameMissing, NameInit,
     Bang \o NameImplement, Bang \o NameRun, Bang \o NameMissing, Bang,
     <<" ">> \o Bang \o NameImplement, Bang \o <<" ">> \o NameImplement}

\* class_entry.get(class_name)
MethodLists == UNION {[1..m -> ListedPool] : m \in 0..MaxListed}

\* the elements of the list s
Elements(s) == {s[n] : n \in 1..Len(s)}

\* the orders in which a for loop may visit the set
Orderings(set) ==
    {order \in [1..Cardinality(set) -> set] : Elements(order) = set}

\* method_name.lstrip().startswith("!")
IsExclusion(method_name) ==
    StartsWithAt(Drop(method_name, LeadingSpace(method_name)), 0, Bang)

\* method_name[method_name.find("!") + 1:]
ExcludedName(method_name) == Drop(method_name, Find(method_name, Bang, 0) + 1)

\* the set excluded after the loop over method_names
Excluded(method_names, all_methods) ==
    {ExcludedName(method_names[n]) :
        n \in {m \in 1..Len(method_names) :
                 /\ IsExclusion(method_names[m])
                 /\ Len(ExcludedName(method_names[m])) > 0
                 /\ ExcludedName(method_names[m]) \in all_methods}}

\* the set included after the loop over method_names; update() is given no
\* argument and adds nothing
Included(method_names) ==
    {method_names[n] : n \in {m \in 1..Len(method_names) :
                                 ~IsExclusion(method_names[m])}}

\* the loop over method_names raises ValueError
NotAMethod(method_names, all_methods) ==
    \E n \in 1..Len(method_names) :
        /\ IsExclusion(method_names[n])
        /\ ExcludedName(method_names[n]) \notin all_methods

\* generate.add_class_mkd, methods in the order the loop visits them: the
\* first call of the extractor that raises ends generate
AddClassMkd(call, args, cls_name, methods) ==
    LET class_spec == GetClassOutcome(cls_name)
        failing == {n \in 1..Len(methods) :
                      GetMethodOutcome(cls_name, methods[n]).raised # "None"}
        first == CHOOSE n \in failing : \A m \in failing : n <= m
    IN IF class_spec.raised # "None" THEN Raised(call, args, class_spec.raised)
       ELSE IF failing # {}
       THEN Raised(call, args, GetMethodOutcome(cls_name, methods[first]).raised)
       ELSE Returned(call, args, [class |-> cls_name, methods |-> methods])

\* a class entry that is a dict: the class name and the list of its methods
ClassEntryDictOutcome(class_name, method_names, order) ==
    LET args == <<class_name>> \o method_names
        listed == GetMethodsOutcome(class_name, FALSE)
        all_methods == Elements(listed.value.methods)
    IN IF listed.raised # "None"
       THEN Raised("class_entry_dict", args, listed.raised)
       ELSE IF NotAMethod(method_names, all_methods)
       THEN Raised("class_entry_dict", args, "ValueError")
       ELSE AddClassMkd("class_entry_dict", args, class_name, order)

\* a class entry that is a name: all the methods of get_methods
ClassEntryNameOutcome(class_entry) ==
    LET class_methods == GetMethodsOutcome(class_entry, FALSE)
    IN IF class_methods.raised # "None"
       THEN Raised("class_entry_str", <<class_entry>>, class_methods.raised)
       ELSE AddClassMkd("class_entry_str", <<class_entry>>, class_entry,
                        class_methods.value.methods)

\* extract = Extract(source), before the loop over page_classes
GenerateInit ==
    /\ source \in PageSources
    /\ last_call = NoCall
    /\ fmt = NoFormat
    /\ ParserUnused

\* no pass of the loop over page_classes has raised: an exception ends generate
NoEntryRaised == IF last_call = NoCall THEN TRUE ELSE last_call.raised = "None"

\* one pass of the loop over page_classes, isinstance(class_entry, dict)
ClassEntryDict ==
    /\ NoEntryRaised
    /\ \E class_name \in ClassNames, method_names \in MethodLists :
          \E order \in Orderings(Included(method_names)) :
             last_call' = ClassEntryDictOutcome(class_name, method_names, order)
    /\ UNCHANGED <<source, fmt, parser_vars>>

\* one pass of the loop over page_classes, the entry is a class name
ClassEntryName ==
    /\ NoEntryRaised
    /\ \E class_entry \in ClassNames : last_call' = ClassEntryNameOutcome(class_entry)
    /\ UNCHANGED <<source, fmt, parser_vars>>

GenerateNext ==
    \/ ClassEntryDict
    \/ ClassEntryName

GenerateSpec == GenerateInit /\ [][GenerateNext]_vars

(***************************************************************************)
(* extract_sections on docstrings without headers and block markers.       *)
(***************************************************************************)
\* the first call of parse() has just finished extract_sections
Extracted == calls = 1 /\ pc = "parse" /\ i = 0 /\ j = 0

\* no line of the docstring is a header or a block marker
NoHeaderNoBlock ==
    \A n \in 1..Len(doc_lines) : ~IsHeader(doc_lines[n]) /\ ~IsBlock(doc_lines[n])

\* the number of leading whitespace characters that make a line indented, or 0
IndentOf(line) ==
    LET n == LeadingSpace(line) IN IF n >= DefaultIndent THEN n ELSE 0

\* the index of the first indented line among lines n.. of the docstring,
\* or 0
RECURSIVE FirstIndentedFrom(_)
FirstIndentedFrom(n) ==
    IF n > Len(doc_lines) THEN 0
    ELSE IF IndentOf(doc_lines[n]) > 0 THEN n
    ELSE FirstIndentedFrom(n + 1)

\* the index of the first indented line of the docstring, or 0
FirstIndented == FirstIndentedFrom(1)

\* the indentation of the first indented line, or 0
BaseIndent == IF FirstIndented = 0 THEN 0 ELSE IndentOf(doc_lines[FirstIndented])

\* no non-empty line after the first indented line is indented less than it
NoDedent ==
    LET f == FirstIndented
        base == BaseIndent
    IN f > 0 =>
          \A n \in (f + 1)..Len(doc_lines) :
              doc_lines[n] # <<>> => IndentOf(doc_lines[n]) >= base

\* the docstring with the base indentation removed from the first indented
\* line on
Unindented ==
    LET f == FirstIndented
        base == BaseIndent
    IN Join([n \in 1..Len(doc_lines) |->
                IF f > 0 /\ n >= f THEN Drop(doc_lines[n], base)
                ELSE doc_lines[n]])

\* C1 as stated: every non-blank docstring without header and block-marker
\* lines, whatever the indentation of its lines, yields exactly one raw
\* section.
C1_OneSectionWhateverIndentation ==
    (Extracted /\ doc_lines = Lines /\ NonBlank(docstring) /\ NoHeaderNoBlock)
        => Len(state.sections) = 1

\* C1 amended: a non-blank docstring without header and block-marker lines
\* in which no non-empty line after the first indented line is indented less
\* than that line yields exactly one raw section, and the section is the
\* text of the docstring with the indentation of the first indented line
\* removed from that line and the lines after it.
C1_OneSectionWithoutDedent ==
    (Extracted /\ doc_lines = Lines /\ NonBlank(docstring) /\ NoHeaderNoBlock
        /\ NoDedent)
        => state.sections = <<Unindented>>

\* a docstring of C1's amended form has been extracted: its first indented
\* line is not blank, text stands before it and after it
C1_Witness ==
    /\ Extracted /\ doc_lines = Lines /\ NonBlank(docstring) /\ NoHeaderNoBlock
    /\ NoDedent
    /\ FirstIndented > 1
    /\ NonBlank(doc_lines[1])
    /\ NonBlank(doc_lines[FirstIndented])
    /\ Len(doc_lines) > FirstIndented
    /\ NonBlank(doc_lines[Len(doc_lines)])
    /\ state.sections # <<docstring>>

(***************************************************************************)
(* The missing-indent error.                                               *)
(***************************************************************************)
\* the next line after line n (0-based) that is not blank, '' past the end
RECURSIVE NextNonBlank(_, _)
NextNonBlank(lines, n) ==
    IF n + 1 >= Len(lines) THEN <<>>
    ELSE IF NonBlank(lines[n + 2]) THEN lines[n + 2]
    ELSE NextNonBlank(lines, n + 1)

\* the 0-based numbers of the header and block-marker lines whose next
\* non-blank line is not indented
Unindentable ==
    {n \in 0..(Len(doc_lines) - 1) :
        /\ IsHeader(doc_lines[n + 1]) \/ IsBlock(doc_lines[n + 1])
        /\ IndentOf(NextNonBlank(doc_lines, n)) = 0}

\* C2: when a header or block-marker line is not followed by an indented
\* next non-blank line, extraction fails with a SyntaxError that carries the
\* number and the text of (the first) such line.
C2_MissingIndentRaises ==
    (calls = 1 /\ pc \in {"parse", "raised"} /\ config = DefaultConfig
        /\ signature = NoSignature /\ Unindentable # {})
        => /\ pc = "raised"
           /\ err.type = "SyntaxError"
           /\ err.lineno \in Unindentable
           /\ \A n \in Unindentable : err.lineno <= n
           /\ err.text = doc_lines[err.lineno + 1]

(***************************************************************************)
(* The docstring "Args:\n    x (int): the x value\nReturns:\n    int: a    *)
(* result\n" parsed without a signature.                                   *)
(***************************************************************************)
TextX == <<"t", "h", "e", " ", "x", " ", "v", "a", "l", "u", "e">>
TextResult == <<"a", " ", "r", "e", "s", "u", "l", "t">>

\* the first call of parse() on that docstring has returned
ParsedArgsReturns ==
    /\ docstring = DocArgsReturns
    /\ signature = NoSignature
    /\ config = DefaultConfig
    /\ Len(returned) >= 1

\* the headers and the argument lists of a result of parse()
HeadersAndArgs(result) ==
    [n \in 1..Len(result) |-> [header |-> result[n].header, args |-> result[n].args]]

\* C3 as stated: the entry of the Returns section has an empty field and the
\* signature "int".
C3_ReturnsEntryHasEmptyField ==
    ParsedArgsReturns =>
        HeadersAndArgs(returned[1]) =
            << [header |-> ArgsHeaders[1],
                args |-> <<[field |-> NameX, signature |-> <<"(">> \o TypeInt \o <<")">>,
                            description |-> TextX]>>],
               [header |-> ReturnsHeaders[1],
                args |-> <<[field |-> <<>>, signature |-> TypeInt,
                            description |-> TextResult]>>] >>

\* C3 amended: parsing yields exactly two sections, "Args" with the single
\* entry {field "x", signature "(int)", description "the x value"} and
\* "Returns" with the single entry {field "int", signature "", description
\* "a result"}.
C3_ReturnsEntryHasFieldInt ==
    ParsedArgsReturns =>
        HeadersAndArgs(returned[1]) =
            << [header |-> ArgsHeaders[1],
                args |-> <<[field |-> NameX, signature |-> <<"(">> \o TypeInt \o <<")">>,
                            description |-> TextX]>>],
               [header |-> ReturnsHeaders[1],
                args |-> <<[field |-> TypeInt, signature |-> <<>>,
                            description |-> TextResult]>>] >>

\* parse() has returned for that docstring
C3_Witness == ParsedArgsReturns /\ pc = "idle" /\ calls = 1

(***************************************************************************)
(* Argument entries and their continuation lines.                          *)
(***************************************************************************)
\* the length of the name a line starts with
NameLength(line) == SkipWhile(line, 0, WordChars)

\* the line has the form "name: description"
IsPlainEntry(line) ==
    /\ NameLength(line) > 0
    /\ StartsWithAt(line, NameLength(line), <<":", " ">>)

\* the number of consecutive indented lines of the section after line k
\* (0-based)
RECURSIVE RunLength(_)
RunLength(k) ==
    IF k + 1 < Len(section_lines) /\ IndentOf(section_lines[k + 2]) > 0
    THEN 1 + RunLength(k + 1)
    ELSE 0

\* the entry for the plain entry line k (0-based) and the N lines after it
EntryWithRun(k, N) ==
    LET line == section_lines[k + 1]
    IN [field |-> Take(line, NameLength(line)),
        signature |-> <<>>,
        description |->
            Join(<<Drop(line, NameLength(line) + 2)>>
                    \o SubSeq(section_lines, k + 2, k + N + 1))]

\* parse_section is at a plain entry line of a section with a header, and
\* reads it
ReadsPlainEntry ==
    /\ pc = "section" /\ pc' = "section"
    /\ cur.header # <<>>
    /\ state.linenum < Len(section_lines)
    /\ IsPlainEntry(section_lines[state.linenum + 1])

\* the entry line and the N = RunLength lines after it are consumed, and
\* they make one entry
ConsumesRun ==
    LET k == state.linenum
        N == RunLength(k)
    IN /\ state'.linenum = k + N + 1
       /\ cur'.args = Append(cur.args, EntryWithRun(k, N))
       /\ cur'.text = cur.text

\* no line of the section after line k (0-based) that is not empty, or else
\* the first of them is not indented
NoIndentedLineNextAfter(k) ==
    \A m \in (k + 2)..Len(section_lines) :
        (/\ section_lines[m] # <<>>
         /\ \A q \in (k + 2)..(m - 1) : section_lines[q] = <<>>)
            => IndentOf(section_lines[m]) = 0

\* C4 as stated: in a section with a header, an entry line "name:
\* description" followed by N indented lines and then by a non-indented line
\* or the end of the section makes a single entry whose description is the
\* first-line description joined with the N lines by newlines, and N+1 lines
\* are consumed.
C4_EntryConsumesIndentedRun == [][ReadsPlainEntry => ConsumesRun]_vars

\* C4 amended: the same, when the N indented lines are followed by the end
\* of the section or by lines of which the first that is not empty is not
\* indented (empty lines between the N lines and a later indented line are
\* continuation lines as well).
C4_EntryConsumesRunBeforeNonIndented ==
    [][(ReadsPlainEntry /\ NoIndentedLineNextAfter(state.linenum + RunLength(state.linenum)))
          => ConsumesRun]_vars

\* an entry line with two or more continuation lines, followed by a line that
\* is not indented, has been read
C4_Witness ==
    /\ pc = "section"
    /\ cur.header # <<>>
    /\ \E k \in 0..(Len(section_lines) - 1) :
          /\ IsPlainEntry(section_lines[k + 1])
          /\ RunLength(k) >= 2
          /\ NoIndentedLineNextAfter(k + RunLength(k))
          /\ state.linenum = k + RunLength(k) + 1
          /\ state.linenum < Len(section_lines)
          /\ cur.args # <<>>
          /\ cur.args[Len(cur.args)] = EntryWithRun(k, RunLength(k))

(***************************************************************************)
(* Sections without a header.                                              *)
(***************************************************************************)
\* the lines of a section that parse_section does not take for a
\* call-signature hint
ProseLines(section) ==
    LET ls == Split(section)
    IN IF GetSignature(ls[1]) # None THEN Tail(ls) ELSE ls

\* the sections of data that have been parsed and not yet post-processed
Parsed == (j + 1)..Len(data)

\* C5: under the default configuration, the text of a section without a
\* header holds every line of the section other than a line-0 call-signature
\* hint, in order, argument-like lines and the indented lines after them
\* included.
C5_HeaderlessSectionKeepsEveryLine ==
    \A n \in Parsed :
        (data[n].header = <<>> /\ config = DefaultConfig)
            => data[n].text = Join(ProseLines(state.sections[n]))

\* C6: a parsed section has entries in args only if it has a header or the
\* option ignore_args_for_undefined_headers is false.
C6_ArgsOnlyWithHeaderOrOption ==
    /\ cur.args # <<>>
          => (cur.header # <<>> \/ ~config.ignore_args_for_undefined_headers)
    /\ \A n \in 1..Len(data) :
          data[n].args # <<>>
              => (data[n].header # <<>> \/ ~config.ignore_args_for_undefined_headers)

\* under the default configuration parse() has returned a section without a
\* header, two lines of which hold the argument delimiter, with no entry in
\* args
C6_Witness ==
    /\ pc = "idle" /\ calls = 1
    /\ config = DefaultConfig
    /\ \E n \in 1..Len(data) :
          /\ data[n].header = <<>>
          /\ data[n].args = <<>>
          /\ LET ls == Split(state.sections[n])
             IN \E a, b \in 1..Len(ls) :
                   /\ a < b
                   /\ Find(ls[a], ArgDelimiter, 0) >= 0
                   /\ Find(ls[b], ArgDelimiter, 0) >= 0

(***************************************************************************)
(* parse() called again, and parse() failing.                              *)
(***************************************************************************)
\* C7: a second call of parse() on the same instance returns what the first
\* call returned.
C7_SecondParseReturnsTheSame ==
    Len(returned) >= 2 => returned[2] = returned[1]

\* C8: when parse() fails with the missing-indent SyntaxError, self.data is
\* the empty list, however many sections were extracted before the failure.
C8_NoDataAfterSyntaxError ==
    (pc = "raised" /\ err.type = "SyntaxError") => data = <<>>

\* parse() has failed with the SyntaxError after it had extracted a section
C8_Witness ==
    /\ pc = "raised" /\ err.type = "SyntaxError"
    /\ calls = 1
    /\ state.sections # <<>>
    /\ err.lineno > 0

\* C9: check_args never raises, whatever the signature, the section and the
\* options.
C9_CheckArgsNeverRaises == ~(pc = "raised" /\ err.type = "KeyError")

(***************************************************************************)
(* The missing-documentation warning.                                      *)
(***************************************************************************)
\* the number of missing-documentation warnings the current call of parse()
\* has emitted for the argument
MissingCount(arg) ==
    Cardinality({n \in 1..Len(warned) :
        warned[n] = [kind |-> "Missing documentation", arg |-> arg]})

\* the sections parse() returns that have an arguments header and no entry
\* for the argument
SectionsLacking(arg) ==
    {n \in 1..Len(data) :
        /\ InList(data[n].header, ArgsHeaders)
        /\ \A m \in 1..Len(data[n].args) : data[n].args[m].field # arg}

\* the argument has an entry in a section with an arguments header
InArgumentList(arg) ==
    \E n \in 1..Len(data) :
        /\ InList(data[n].header, ArgsHeaders)
        /\ \E m \in 1..Len(data[n].args) : data[n].args[m].field = arg

\* parse() has returned, under the default configuration and with a signature
ReturnedWithSignature ==
    /\ pc = "idle" /\ calls >= 1
    /\ config = DefaultConfig
    /\ signature # NoSignature

\* C10 as stated: with the default configuration and a signature, parse()
\* emits the missing-documentation warning exactly once for every declared
\* argument that is absent from the argument list of the docstring.
C10_MissingWarnedExactlyOnce ==
    ReturnedWithSignature =>
        \A n \in 1..Len(signature.args) :
            ~InArgumentList(signature.args[n].name)
                => MissingCount(signature.args[n].name) = 1

\* C10 amended: with the default configuration and a signature, for every
\* declared argument that has a declared type and is not exempt (self),
\* parse() emits the missing-documentation warning once for each section it
\* returns that has an arguments header and no entry for the argument:
\* exactly once when there is one such section, never when there is none; for
\* a declared argument without a declared type, and for self, it emits none.
C10_MissingWarnedOncePerArgsSection ==
    ReturnedWithSignature =>
        \A n \in 1..Len(signature.args) :
            LET arg == signature.args[n].name
            IN MissingCount(arg) =
                  IF signature.args[n].type # <<>> /\ arg # NameSelf
                  THEN Cardinality(SectionsLacking(arg))
                  ELSE 0

\* parse() has returned one section of arguments for a signature that
\* declares x: int and self: str, the section has no entry for either, and
\* x has been warned about once
C10_Witness ==
    /\ ReturnedWithSignature
    /\ calls = 1
    /\ \E n, m \in 1..Len(signature.args) :
          /\ signature.args[n] = [name |-> NameX, type |-> TypeInt]
          /\ signature.args[m] = [name |-> NameSelf, type |-> TypeStr]
    /\ Cardinality(SectionsLacking(NameX)) = 1
    /\ Cardinality(SectionsLacking(NameSelf)) = 1
    /\ Len(data) = 2
    /\ MissingCount(NameX) = 1

(***************************************************************************)
(* The annotation-mismatch warning and the override of annotations.        *)
(***************************************************************************)
\* the second loop of parse() takes the next section of data
PostProcessesSection ==
    /\ pc = "parse" /\ pc' = "parse"
    /\ i = Len(state.sections)
    /\ j < Len(data)
    /\ j' = j + 1

\* the warnings emitted by the step
NewWarnings == SubSeq(warned', Len(warned) + 1, Len(warned'))

\* the signature map declares the type for the argument
Declares(arg, type) ==
    /\ signature # NoSignature
    /\ \E n \in 1..Len(signature.args) :
          signature.args[n] = [name |-> arg, type |-> type]

\* the indexes of the entries of the section for the field
EntriesFor(section, field) ==
    {n \in 1..Len(section.args) : section.args[n].field = field}

\* the section has an arguments header and exactly one entry for the field
DocumentsOnce(section, field) ==
    /\ InList(section.header, ArgsHeaders)
    /\ Cardinality(EntriesFor(section, field)) = 1

\* the entry of the section for the field
EntryFor(section, field) ==
    section.args[CHOOSE n \in EntriesFor(section, field) : TRUE]

MismatchX == [kind |-> "Annotation mismatch", arg |-> NameX]
WrittenInt == <<"(">> \o TypeInt \o <<")">>
WrittenStr == <<"(">> \o TypeStr \o <<")">>

\* C11: with the default configuration, a signature map that declares
\* x: int and a section of arguments that documents x, the
\* annotation-mismatch warning for x is emitted when the signature written in
\* the docstring is "(str)", and is not emitted when it is empty or "(int)";
\* the entry is overridden with "int" by the same step, after the comparison.
C11_MismatchComparesWrittenSignature ==
    [][(/\ PostProcessesSection
        /\ config = DefaultConfig
        /\ Declares(NameX, TypeInt)
        /\ DocumentsOnce(data[j + 1], NameX))
          => LET written == EntryFor(data[j + 1], NameX).signature
                 emitted == InList(MismatchX, NewWarnings)
             IN /\ written = WrittenStr => emitted
                /\ written \in {<<>>, WrittenInt} => ~emitted
                /\ EntryFor(data'[j + 1], NameX).signature = TypeInt]_vars

\* the entry of x, written with "(str)", has been compared with the declared
\* int, the warning has been emitted and the entry has been overridden
C11_Witness ==
    /\ pc = "parse" /\ j >= 1 /\ calls = 1
    /\ config = DefaultConfig
    /\ Declares(NameX, TypeInt)
    /\ DocumentsOnce(data[j], NameX)
    /\ EntryFor(data[j], NameX).signature = TypeInt
    /\ Find(docstring, WrittenStr, 0) >= 0
    /\ Find(docstring, WrittenInt, 0) < 0
    /\ InList(MismatchX, warned)

\* the second loop of parse() takes the next section of data, with a
\* signature map and the override of annotations enabled
OverridesSection ==
    /\ PostProcessesSection
    /\ signature # NoSignature
    /\ config.override_annotations

\* the types the signature map declares for the name
DeclaredTypes(name) ==
    {signature.args[n].type : n \in {k \in 1..Len(signature.args) :
                                        signature.args[k].name = name}}

\* the entries of a section without an arguments or returns header are as
\* the docstring wrote them
OtherSectionsKeepSignatures ==
    (~InList(data[j + 1].header, ArgsHeaders)
        /\ ~InList(data[j + 1].header, ReturnsHeaders))
        => data'[j + 1].args = data[j + 1].args

\* C12 as stated: after parse() with a signature map and override_annotations
\* enabled, every entry of a section of arguments whose field is a key of
\* the map has the declared type of the key as its signature; the entries of
\* sections without an arguments or returns header keep the signature the
\* docstring wrote.
C12_OverrideWithDeclaredType ==
    [][OverridesSection =>
          /\ InList(data[j + 1].header, ArgsHeaders) =>
                \A m \in 1..Len(data[j + 1].args) :
                    \A type \in DeclaredTypes(data[j + 1].args[m].field) :
                        data'[j + 1].args[m].signature = type
          /\ OtherSectionsKeepSignatures]_vars

\* C12 amended: every entry of a section of arguments whose field is a key
\* of the map with a non-empty declared type has that type as its signature,
\* whatever the docstring wrote; an entry whose field is no key of the map,
\* or a key with an empty declared type, keeps the signature the docstring
\* wrote, and so do the entries of sections without an arguments or returns
\* header.
C12_OverrideWithNonEmptyDeclaredType ==
    [][OverridesSection =>
          /\ InList(data[j + 1].header, ArgsHeaders) =>
                /\ Len(data'[j + 1].args) = Len(data[j + 1].args)
                /\ \A m \in 1..Len(data[j + 1].args) :
                      LET types == DeclaredTypes(data[j + 1].args[m].field) \ {<<>>}
                      IN /\ \A type \in types :
                               data'[j + 1].args[m].signature = type
                         /\ types = {} =>
                               data'[j + 1].args[m] = data[j + 1].args[m]
          /\ OtherSectionsKeepSignatures]_vars

\* parse() has returned a section of arguments in which the entry of x,
\* written with "(str)", has the declared int, and the entry of y, which the
\* map does not declare, has no signature
C12_Witness ==
    /\ pc = "idle" /\ calls = 1
    /\ config.override_annotations
    /\ Declares(NameX, TypeInt)
    /\ Find(docstring, WrittenStr, 0) >= 0
    /\ \E n \in 1..Len(data) :
          /\ InList(data[n].header, ArgsHeaders)
          /\ \E a, b \in 1..Len(data[n].args) :
                /\ data[n].args[a].field = NameX
                /\ data[n].args[a].signature = TypeInt
                /\ data[n].args[b].field = <<"y">>
                /\ data[n].args[b].signature = <<>>

(***************************************************************************)
(* The wrapping of interactive examples in code fences.                    *)
(***************************************************************************)
\* the line begins with the example marker
IsExampleLine(line) == StartsWithAt(line, LeadingSpace(line), Keyword)

\* the lines of a text that begin with the example marker
ExampleLines(text) ==
    {n \in 1..Len(Split(text)) : IsExampleLine(Split(text)[n])}

\* the indexes of the lines of a text that are a fence, after indentation:
\* the tag followed by the language, and the tag alone
OpeningFences(text, lang) ==
    {n \in 1..Len(Split(text)) :
        LET line == Split(text)[n]
        IN Drop(line, LeadingSpace(line)) = Tag \o lang}

ClosingFences(text) ==
    {n \in 1..Len(Split(text)) :
        LET line == Split(text)[n]
        IN Drop(line, LeadingSpace(line)) = Tag}

\* every line of the text that begins with the marker stands, in the wrapped
\* text, between an opening fence and a closing fence
ExamplesFenced(text, wrapped, lang) ==
    \A n \in ExampleLines(text) :
        \E o \in OpeningFences(wrapped, lang), e \in 1..Len(Split(wrapped)),
           c \in ClosingFences(wrapped) :
            /\ o < e /\ e < c
            /\ Split(wrapped)[e] = Split(text)[n]

\* C13: when a line of the text of a section begins with the example marker,
\* be it the only such line, the text after mark_code_blocks holds every such
\* line between a fence tagged with the language and a closing fence.
C13_ExampleLinesAreFenced ==
    [][(PostProcessesSection /\ config = DefaultConfig)
          => ExamplesFenced(data[j + 1].text, data'[j + 1].text,
                            DefaultConfig.code)]_vars

\* C14: with the option code set to the empty string, parse() still wraps
\* the examples: the text of a section is what the function mark_code_blocks
\* makes of it with an empty language, fences without a language included.
C14_EmptyCodeStillFences ==
    [][(PostProcessesSection /\ config = [DefaultConfig EXCEPT !.code = <<>>])
          => data'[j + 1].text = MarkCodeBlocksText(data[j + 1].text, <<>>)]_vars

(***************************************************************************)
(* Termination.                                                            *)
(***************************************************************************)
\* a call of parse() is running
Running == pc \notin {"idle", "raised"}

\* the step moves a cursor of the running call forward, and not past its end
Advances ==
    \/ pc = "extract" /\ pc' \in {"extract", "raised"}
         /\ linenumber < Len(doc_lines)
         /\ (pc' = "extract" => linenumber' = linenumber + 1)
    \/ pc = "extract" /\ pc' = "parse" /\ linenumber = Len(doc_lines)
    \/ pc = "parse" /\ pc' = "section" /\ i < Len(state.sections)
         /\ state'.linenum <= 1
    \/ pc = "section" /\ pc' = "section"
         /\ state'.linenum > state.linenum
         /\ state'.linenum <= Len(section_lines)
    \/ pc = "section" /\ pc' = "parse" /\ i' = i + 1 /\ i' <= Len(state.sections)
    \/ pc = "parse" /\ pc' \in {"parse", "raised"} /\ j < Len(data)
         /\ (pc' = "parse" => j' = j + 1)
    \/ pc = "parse" /\ pc' = "idle" /\ j = Len(data)

\* C15: every step of a call of parse() moves the line cursor of its loop
\* forward and stops at the end of the lines, and the call ends either by
\* returning the parsed sections or by raising the SyntaxError.
C15_ParseAdvancesToReturnOrSyntaxError ==
    [][Running => (Advances /\ (pc' = "raised" => err'.type = "SyntaxError"))]_vars


(***************************************************************************)
(* C16: Extract.get_class on a class that defines no __init__ method       *)
(* returns the class record with the signature "<ClassName>()" instead of  *)
(* failing, and on a class whose __init__ takes (self, a) it returns the   *)
(* signature "<ClassName>(\n   a\n)".                                      *)
(***************************************************************************)
\* get_class was called with the name of a class of the source
AskedClass ==
    /\ last_call.call = "get_class"
    /\ FindClass(source, last_call.args[1]) # <<>>

\* the class get_class was asked for
ClassAsked == FindClass(source, last_call.args[1])[1]

\* the methods of the class asked for that are named __init__
InitMethods ==
    {n \in 1..Len(ClassAsked.body) :
        /\ ClassAsked.body[n].type \in {"FunctionDef", "AsyncFunctionDef"}
        /\ ClassAsked.body[n].name = NameInit}

\* the call returned a record with this signature
ReturnedSignature(sig) ==
    /\ last_call.raised = "None"
    /\ last_call.value.signature = sig

\* C16: get_class returns "<ClassName>()" for a class without __init__ and
\* "<ClassName>(\n   a\n)" for a class whose __init__ takes (self, a)
C16_ClassWithoutInitHasEmptySignature ==
    AskedClass =>
        /\ InitMethods = {} =>
              /\ ReturnedSignature(last_call.args[1] \o <<"(", ")">>)
              /\ last_call.value.class = ClassAsked.name
        /\ (/\ InitMethods # {}
            /\ \A n \in InitMethods :
                  ClassAsked.body[n].args = <<NameOfSelf, ParamA>>) =>
              ReturnedSignature(last_call.args[1]
                                \o <<"(", NL, " ", " ", " ", "a", NL, ")">>)

\* the half of C16 about a class whose __init__ takes (self, a)
C16_InitWithOneParameter ==
    (/\ AskedClass
     /\ InitMethods # {}
     /\ \A n \in InitMethods : ClassAsked.body[n].args = <<NameOfSelf, ParamA>>) =>
        ReturnedSignature(last_call.args[1]
                          \o <<"(", NL, " ", " ", " ", "a", NL, ")">>)

(***************************************************************************)
(* C17: Extract.get_function finds a top-level function declared with      *)
(* async def by its name exactly as it finds a plain def, and returns its  *)
(* record, with the signature "<name>()" when it takes no parameters,      *)
(* instead of reporting the function as not found.                         *)
(***************************************************************************)
\* the top-level definitions, def or async def, named as get_function asked
FunctionsAsked ==
    {n \in 1..Len(source) :
        /\ source[n].type \in {"FunctionDef", "AsyncFunctionDef"}
        /\ source[n].name = last_call.args[1]}

\* the first of them
FunctionAsked == source[CHOOSE n \in FunctionsAsked : \A m \in FunctionsAsked : n <= m]

\* C17: get_function returns the record of the first top-level def or async
\* def of the name asked for, "<name>()" being its signature when it takes no
\* parameters
C17_AsyncFunctionFoundLikePlain ==
    (last_call.call = "get_function" /\ FunctionsAsked # {}) =>
        /\ last_call.raised = "None"
        /\ last_call.value.function = FunctionAsked.name
        /\ last_call.value.ast = FunctionAsked
        /\ FunctionAsked.args = <<>> =>
              last_call.value.signature = last_call.args[1] \o <<"(", ")">>

\* C17 for plain def alone
C17_PlainFunctionFound ==
    (/\ last_call.call = "get_function"
     /\ FunctionsAsked # {}
     /\ FunctionAsked.type = "FunctionDef") =>
        /\ last_call.raised = "None"
        /\ last_call.value.ast = FunctionAsked
        /\ FunctionAsked.args = <<>> =>
              last_call.value.signature = last_call.args[1] \o <<"(", ")">>

(***************************************************************************)
(* C18: Extract.get_methods(class_name) with static=False returns the name *)
(* of every method defined in the class body whose name does not start     *)
(* with an underscore, including methods that carry a decorator such as    *)
(* @abstractmethod: a class with one @abstractmethod method and one        *)
(* undecorated public method yields 2 names.                               *)
(***************************************************************************)
\* get_methods(class_name) returned, static being False
ListedMethods ==
    /\ last_call.call = "get_methods"
    /\ last_call.raised = "None"
    /\ ~last_call.value.static

\* the methods of a class body whose name does not start with an underscore
RECURSIVE PublicMethods(_)
PublicMethods(body) ==
    IF body = <<>> THEN <<>>
    ELSE (IF /\ Head(body).type = "FunctionDef"
             /\ Head(Head(body).name) # "_"
          THEN <<Head(body).name>> ELSE <<>>)
         \o PublicMethods(Tail(body))

\* C18: get_methods with static=False lists the public methods of the class,
\* the decorated ones included
C18_DecoratedMethodsListed ==
    ListedMethods =>
        last_call.value.methods
            = PublicMethods(FindClass(source, last_call.args[1])[1].body)

\* C18 for classes without a decorated method
C18_UndecoratedMethodsListed ==
    (/\ ListedMethods
     /\ \A n \in 1..Len(FindClass(source, last_call.args[1])[1].body) :
           FindClass(source, last_call.args[1])[1].body[n].decorator_list = <<>>) =>
        last_call.value.methods
            = PublicMethods(FindClass(source, last_call.args[1])[1].body)


(***************************************************************************)
(* C19: during extraction, a line that is neither a header nor a block     *)
(* marker closes the current section and opens a new indent-less one       *)
(* exactly when it is non-blank and its indentation is below the section's *)
(* established base indent; a blank line, whether empty or made only of    *)
(* whitespace of any length, never closes the current section.             *)
(***************************************************************************)
\* extract_sections reads a line that is neither a header nor a block marker
ReadsPlainLine ==
    /\ pc = "extract"
    /\ linenumber < Len(doc_lines)
    /\ linenumber' = linenumber + 1
    /\ ~IsHeader(doc_lines[linenumber + 1])
    /\ ~IsBlock(doc_lines[linenumber + 1])

\* the line read
LineRead == doc_lines[linenumber + 1]

\* the base indent of the section once the line is read: captured from the
\* line when the section has none yet and the line is indented
EstablishedIndent ==
    IF new_section /\ IsIndent(LineRead) THEN GetIndent(LineRead) ELSE state.indent

\* the step closes the section and opens one without indent for the line
ClosesSection ==
    /\ state'.indent = 0
    /\ state'.section = <<LineRead>>
    /\ state'.sections = EndSection(state).sections

\* the step adds the line to the section, less the base indent
StaysInSection ==
    /\ state'.indent = EstablishedIndent
    /\ state'.section = Append(state.section, Drop(LineRead, EstablishedIndent))
    /\ state'.sections = state.sections

\* C19: a line without header and block marker closes the section exactly
\* when it is non-blank and indented less than the base indent; a line that
\* is empty or holds whitespace only stays in the section
C19_DedentClosesExceptOnBlankLines ==
    [][ReadsPlainLine =>
          IF NonBlank(LineRead) /\ LeadingSpace(LineRead) < EstablishedIndent
          THEN ClosesSection
          ELSE StaysInSection]_vars

\* what holds of the test of the code: the line closes the section exactly
\* when it is not the empty string and its indent is below the base indent
C19_DedentClosesExceptOnEmptyLines ==
    [][ReadsPlainLine =>
          IF LineRead # <<>> /\ LeadingSpace(LineRead) < EstablishedIndent
          THEN ClosesSection
          ELSE StaysInSection]_vars


(***************************************************************************)
(* C20: for every raw section opened by a header line and for every raw    *)
(* section opened by a block-marker line, each body line of the emitted    *)
(* section has had the section's base indentation removed, the base        *)
(* indentation being the indentation of the first indented line that       *)
(* follows the section start.                                              *)
(***************************************************************************)
\* the 1-based index in the docstring of the first line of the section that
\* extract_sections is collecting
SectionStart == linenumber - Len(state.section) + 1

\* extract_sections is collecting a section and has read its first line in
\* this call of parse(): no line is left in it from a call that raised
Collecting ==
    /\ pc = "extract"
    /\ state.section # <<>>
    /\ Len(state.section) <= linenumber

\* the section being collected was opened by a header line
OpenedByHeader == Collecting /\ IsHeader(doc_lines[SectionStart])

\* the section being collected was opened by a block-marker line
OpenedByBlock ==
    /\ Collecting
    /\ ~IsHeader(doc_lines[SectionStart])
    /\ IsBlock(doc_lines[SectionStart])

\* the indentation of the first indented line among lines n.. of the
\* docstring, or 0 when none is indented
RECURSIVE IndentFrom(_)
IndentFrom(n) ==
    IF n > Len(doc_lines) THEN 0
    ELSE IF IsIndent(doc_lines[n]) THEN GetIndent(doc_lines[n])
    ELSE IndentFrom(n + 1)

\* the base indentation of the section being collected
SectionBase == IndentFrom(SectionStart + 1)

\* line k of the docstring without its first n characters
Without(k, n) ==
    IF n >= Len(doc_lines[k]) THEN <<>>
    ELSE SubSeq(doc_lines[k], n + 1, Len(doc_lines[k]))

\* every body line of the section being collected is the line of the
\* docstring without its first n characters
BodyLinesWithout(n) ==
    \A k \in 2..Len(state.section) :
        state.section[k] = Without(SectionStart + k - 1, n)

NonEmptyAfter(k) ==
    {q \in (k + 1)..(Len(section_lines) - 1) : section_lines[q + 1] # <<>>}

\* the 0-based index of the last line of the entry whose lines reach line k:
\* the entry goes on to the first non-empty line after k when that line is
\* indented, the empty lines in between included
RECURSIVE LastOfEntry(_)
LastOfEntry(k) ==
    IF NonEmptyAfter(k) = {} THEN k
    ELSE LET q == CHOOSE q \in NonEmptyAfter(k) : \A p \in NonEmptyAfter(k) : q <= p
         IN IF IndentOf(section_lines[q + 1]) > 0 THEN LastOfEntry(q) ELSE k

\* an empty line stands between line k and the last line of its entry
EmptyLineInside(k) ==
    \E q \in (k + 1)..(LastOfEntry(k) - 1) : section_lines[q + 1] = <<>>

\* C21: the entry read at a plain entry line takes every line up to the last
\* indented line that only empty lines separate from the lines before it;
\* the empty lines stand in the description where they stood, the cursor
\* passes the last indented line and no further
C21_EmptyLinesDoNotEndEntry ==
    [][ReadsPlainEntry =>
          LET k == state.linenum
              m == LastOfEntry(k)
          IN /\ state'.linenum = m + 1
             /\ cur'.args = Append(cur.args, EntryWithRun(k, m - k))
             /\ cur'.text = cur.text
             /\ m > k => section_lines[m + 1] # <<>>]_vars

\* an entry that holds an empty line between its lines has been read, and
\* an empty line after its last line is left to be read
C21_Witness ==
    /\ pc = "section"
    /\ cur.header # <<>>
    /\ cur.args # <<>>
    /\ state.linenum < Len(section_lines)
    /\ section_lines[state.linenum + 1] = <<>>
    /\ \E k \in 0..(state.linenum - 1) :
          /\ IsPlainEntry(section_lines[k + 1])
          /\ EmptyLineInside(k)
          /\ state.linenum = LastOfEntry(k) + 1
          /\ cur.args[Len(cur.args)] = EntryWithRun(k, LastOfEntry(k) - k)


(***************************************************************************)
(* C22: a line is classified as a block marker exactly when, after         *)
(* optional leading whitespace, it starts with !!! or ??? followed by one  *)
(* of the configured admonition keywords and an optional quoted title: a   *)
(* line starting with !!! followed by a word that is not a configured      *)
(* keyword is not a block marker, ??? note with nothing after the keyword  *)
(* is a block marker, and ??? occurring in the middle of a line does not   *)
(* make it one.                                                            *)
(***************************************************************************)
\* after its leading whitespace the line holds !!! or ???, a space and a
\* keyword of the blocks, and the keyword ends the line or a space follows
MarkerLine(line) ==
    LET k == LeadingSpace(line)
    IN /\ \/ StartsWithAt(line, k, <<"!", "!", "!", " ">>)
          \/ StartsWithAt(line, k, <<"?", "?", "?", " ">>)
       /\ \E n \in 1..Len(BlockKeywords) :
             /\ StartsWithAt(line, k + 4, BlockKeywords[n])
             /\ \/ k + 4 + Len(BlockKeywords[n]) = Len(line)
                \/ line[k + 4 + Len(BlockKeywords[n]) + 1] = " "

\* extract_sections reads a line that is not a header
ReadsLineWithoutHeader ==
    /\ pc = "extract"
    /\ linenumber < Len(doc_lines)
    /\ ~IsHeader(doc_lines[linenumber + 1])

\* the step takes the line for a block marker: it raises for the indent that
\* is missing after it, or it opens a section with the line and sets
\* new_block
TakenForBlock ==
    \/ /\ pc' = "raised"
       /\ err'.type = "SyntaxError"
       /\ err'.lineno = linenumber
    \/ /\ pc' = "extract"
       /\ new_block' /\ ~new_section'
       /\ state'.section = <<LineRead>>
       /\ state'.indent = 0

\* the step takes the line for a line of the body: nothing is raised and
\* new_block is not set by it
TakenForBody ==
    /\ pc' = "extract"
    /\ new_block' => new_block

\* C22: extract_sections takes a line for a block marker exactly when the
\* line is a marker line
C22_BlockMarkerNeedsKeyword ==
    [][ReadsLineWithoutHeader =>
          IF MarkerLine(LineRead) THEN TakenForBlock ELSE TakenForBody]_vars

\* C22 for the lines that start with !!! and a keyword
C22_BangKeywordIsBlock ==
    [][(/\ ReadsLineWithoutHeader
        /\ MarkerLine(LineRead)
        /\ StartsWithAt(LineRead, LeadingSpace(LineRead), <<"!">>)) =>
          TakenForBlock]_vars


(***************************************************************************)
(* C24: with the default configuration, a line made of any one of the      *)
(* keywords Args, Arguments, Returns, Yields, Raises, Note, Notes,         *)
(* Properties, Fields, Example, Examples, Attributes, Todo, References     *)
(* immediately followed by ':' is classified as a header, and              *)
(* parse_section records exactly that keyword as the section's header.     *)
(***************************************************************************)
\* the docstring of a keyword with the delimiter and one indented line
HeaderDoc(kw) == Join(<<kw \o Delimiter, LineIndentedText>>)

\* the first call of parse() returned one section with this header
ReturnedHeader(kw) ==
    /\ Len(returned[1]) = 1
    /\ returned[1][1].header = kw

\* C24: parse() of a line made of a named keyword and ':' and of an
\* indented line returns one section whose header is the keyword
C24_EveryNamedKeywordIsHeader ==
    (Len(returned) >= 1 /\ config = DefaultConfig) =>
        \A kw \in NamedHeaders : docstring = HeaderDoc(kw) => ReturnedHeader(kw)

\* C24 for the keywords other than Fields and Notes
C24_KeywordsOfTheExpressionAreHeaders ==
    (Len(returned) >= 1 /\ config = DefaultConfig) =>
        \A kw \in NamedHeaders \ {<<"F","i","e","l","d","s">>, <<"N","o","t","e","s">>} :
            docstring = HeaderDoc(kw) => ReturnedHeader(kw)


(***************************************************************************)
(* C23: whenever extraction completes without a syntax error, the emitted  *)
(* raw sections taken in order contain every non-blank line of the         *)
(* docstring exactly once and in the original order, each differing from   *)
(* the original line only by removed leading whitespace: no non-whitespace *)
(* character is dropped, duplicated or moved, and no emitted section is    *)
(* blank.                                                                  *)
(***************************************************************************)
\* extract_sections has just returned to parse()
ExtractionDone == pc = "parse" /\ i = 0 /\ j = 0

\* the lines of the sections from section n on, in order
RECURSIVE LinesOfSectionsFrom(_)
LinesOfSectionsFrom(n) ==
    IF n > Len(state.sections) THEN <<>>
    ELSE Split(state.sections[n]) \o LinesOfSectionsFrom(n + 1)

\* the lines of a list that are not blank
NonBlankLines(lines) == SelectSeq(lines, NonBlank)

\* short is the line orig without some of its leading whitespace
LessLeadingSpace(short, orig) ==
    \E n \in 0..LeadingSpace(orig) : short = Drop(orig, n)

\* the non-blank lines of the sections are the non-blank lines of the
\* docstring, one for one and in order, less leading whitespace, and no
\* section is blank
SectionsHoldTheLines ==
    LET emitted == NonBlankLines(LinesOfSectionsFrom(1))
        written == NonBlankLines(doc_lines)
    IN /\ Len(emitted) = Len(written)
       /\ \A k \in 1..Len(emitted) :
             k <= Len(written) /\ LessLeadingSpace(emitted[k], written[k])
       /\ \A n \in 1..Len(state.sections) : NonBlank(state.sections[n])

\* C23: after every extraction that completes, the sections hold the
\* non-blank lines of the docstring once each, in order
C23_SectionsHoldEveryLineOnce == ExtractionDone => SectionsHoldTheLines

\* C23 for the first call of parse() on an instance
C23_FirstExtractionHoldsEveryLineOnce ==
    (ExtractionDone /\ calls = 1) => SectionsHoldTheLines


(***************************************************************************)
(* C25: for every comma-separated parameter string, every line of the text *)
(* returned by Extract._format_signature has at most 80 characters,        *)
(* counted on the returned text (after ':' and '=' have been expanded to   *)
(* ': ' and ' = ').                                                        *)
(***************************************************************************)
\* the length the docstring of _format_signature promises for a line
PromisedLength == 80

\* _format_signature has returned
Formatted == last_call.call = "_format_signature"

\* the lines of the text returned
LinesReturned == Split(last_call.value.text)

\* C25: no line of the text _format_signature returns is longer than 80
\* characters
C25_NoLineLongerThan80 ==
    Formatted => \A n \in 1..Len(LinesReturned) : Len(LinesReturned[n]) <= PromisedLength

(***************************************************************************)
(* C26: Extract._format_signature terminates for every comma-separated     *)
(* parameter string: every iteration of its loop either removes a          *)
(* parameter from the pending list or is followed within a bounded number  *)
(* of iterations by one that does, including when a single parameter is    *)
(* longer than the line budget (more than 74 characters).                  *)
(***************************************************************************)
\* the step is an iteration of the loop that leaves the pending list as it is
IterationWithoutPop ==
    /\ fmt.pc = "loop"
    /\ fmt'.pc = "loop"
    /\ fmt' # fmt
    /\ fmt'.params = fmt.params

\* the next iteration removes the first pending parameter: it fits the line
\* the loop has just begun
NextIterationPops ==
    /\ fmt'.params # <<>>
    /\ Len(fmt'.current_line) + Len(fmt'.params[1]) <= LineLimit

\* C26: an iteration that removes no parameter is followed by one that does
C26_LoopRemovesParameterWithinTwoIterations ==
    [][IterationWithoutPop => NextIterationPops]_vars

\* C26 when no parameter after the first is longer than 74 characters
C26_LoopRemovesParameterThatFits ==
    [][(/\ IterationWithoutPop
        /\ \A n \in 1..Len(fmt.params) :
              Len(fmt.params[n]) <= LineLimit - Len(Tab)) =>
          NextIterationPops]_vars


(***************************************************************************)
(* C27: in generate, for a class entry whose method list contains only     *)
(* '!'-prefixed exclusions, each naming an existing public method, the      *)
(* documented methods of the class are all the methods get_methods returns  *)
(* except the excluded ones; when the list names methods without '!',       *)
(* exactly those named methods are documented.                             *)
(***************************************************************************)
\* the pass over a dict entry has handed its methods to add_class_mkd
DictEntryDocumented ==
    /\ last_call.call = "class_entry_dict"
    /\ last_call.raised = "None"

\* the method list of the entry the last pass was given
ListedOfEntry == Tail(last_call.args)

\* what get_methods returns for the class of the entry
MethodsOfEntry == Elements(GetMethodsOutcome(last_call.args[1], FALSE).value.methods)

\* the list holds exclusions only, each '!' followed by the name of a method
OnlyExclusions ==
    /\ ListedOfEntry # <<>>
    /\ \A n \in 1..Len(ListedOfEntry) :
          /\ StartsWithAt(ListedOfEntry[n], 0, Bang)
          /\ Tail(ListedOfEntry[n]) \in MethodsOfEntry

\* the names of the list that hold no '!'
NamedOfEntry ==
    {ListedOfEntry[n] : n \in {m \in 1..Len(ListedOfEntry) :
                                  Find(ListedOfEntry[m], Bang, 0) = -1}}

\* the methods after the '!' of the exclusions of the list
ExcludedOfEntry ==
    {Tail(ListedOfEntry[n]) : n \in {m \in 1..Len(ListedOfEntry) :
                                        StartsWithAt(ListedOfEntry[m], 0, Bang)}}

\* exclusions only: every method but the excluded ones is documented
ExclusionsDocumentTheRest ==
    (DictEntryDocumented /\ OnlyExclusions) =>
        Elements(last_call.value.methods) = MethodsOfEntry \ ExcludedOfEntry

\* C27, second half: when the list names methods without '!', exactly the
\* named methods are documented
C27_NamedMethodsAreDocumented ==
    (DictEntryDocumented /\ NamedOfEntry # {}) =>
        Elements(last_call.value.methods) = NamedOfEntry

\* C27: both halves of the claim
C27_ExclusionsDocumentOtherMethods ==
    /\ ExclusionsDocumentTheRest
    /\ C27_NamedMethodsAreDocumented

\* a list of exclusions that leaves a method of the class: the case of the
\* first half
C27_ExclusionLeavesAMethod ==
    /\ DictEntryDocumented
    /\ OnlyExclusions
    /\ MethodsOfEntry \ ExcludedOfEntry # {}

\* with a list of exclusions only, no method is documented
C27_ExclusionsDocumentNothing ==
    (DictEntryDocumented /\ OnlyExclusions) => last_call.value.methods = <<>>

====
